---- MODULE Spec2Model ----
(***************************************************************************)
(* Model of the card_creator requirements interview                        *)
(* (src/card_creator/requirements.py), of the chat loop that drives it     *)
(* (src/card_creator/cli.py) and of the blueprint and HTML extraction of   *)
(* CardDesignCrew (src/card_creator/crew.py).                              *)
(*                                                                         *)
(* Text is modelled character by character: a Python str is a sequence of  *)
(* one-character strings, and None is the distinguished value None below.  *)
(***************************************************************************)
EXTENDS Integers, Sequences, FiniteSets, TLC

VARIABLES requirements, asked, active_question, greeted, answered, pc, question, crew,
          returned, merged, merge_addition,
          raw_output, blueprint, html_preview, html_generation_prompt,
          generated_html, generated_html_raw, pexels_images, response,
          pexels_call

\* One RequirementManager and the chat loop around it.
interview_vars ==
    <<requirements, asked, active_question, greeted, answered, pc, question, crew>>

\* merge_text exercised on its own: the text merged so far (its `existing`
\* argument) and the addition last merged into it.
merge_vars == <<merged, merge_addition>>

\* The locals of CardDesignCrew.run that make up its result, the photo list
\* the crew keeps (self._pexels_images) and what the LLM answered in the HTML
\* round (the local `response` of _generate_final_html), and the last call of
\* search_backgrounds: its api_key and query, whether a request was made and
\* what came of it.
run_vars ==
    <<raw_output, blueprint, html_preview, html_generation_prompt,
      generated_html, generated_html_raw, pexels_images, response, pexels_call>>

\* What an interview step leaves alone: the value last returned by a read
\* operation, the arguments of merge_text and the locals of run.
outside_interview == <<returned, merge_vars, run_vars>>

vars == <<interview_vars, outside_interview>>

(***************************************************************************)
(* Bounds of the model.                                                    *)
(***************************************************************************)
\* Non-blank answers ingested in one session.
MaxAnswers == 3

(***************************************************************************)
(* Python values and str methods.                                          *)
(***************************************************************************)
\* Python's None, for an Optional[str] field (no str is equal to it).
None == <<"None">>

\* bool(value) of an Optional[str]: None and "" are falsy.
Truthy(value) == value # None /\ value # <<>>

\* `value or ""`
OrEmpty(value) == IF Truthy(value) THEN value ELSE <<>>

Min(S) == CHOOSE x \in S : \A y \in S : x <= y

UpperCase == <<"A", "B", "C", "D", "E", "F", "G", "H", "I", "J", "K", "L", "M",
               "N", "O", "P", "Q", "R", "S", "T", "U", "V", "W", "X", "Y", "Z">>

LowerCase == <<"a", "b", "c", "d", "e", "f", "g", "h", "i", "j", "k", "l", "m",
               "n", "o", "p", "q", "r", "s", "t", "u", "v", "w", "x", "y", "z">>

UpperSet == {UpperCase[i] : i \in 1..26}

LowerMap == [c \in UpperSet |-> LowerCase[CHOOSE i \in 1..26 : UpperCase[i] = c]]

\* str.lower() of one character
LowerChar(c) == IF c \in UpperSet THEN LowerMap[c] ELSE c

\* LATIN CAPITAL LETTER I WITH DOT ABOVE, the one character whose lowercase
\* is two characters long: "i" and COMBINING DOT ABOVE.
DottedCapitalI == "U+0130"

RECURSIVE lower(_)
\* str.lower(): character by character, except that each U+0130 becomes two
\* characters, so the result can be longer than the text.
lower(text) ==
    LET dotted == {i \in 1..Len(text) : text[i] = DottedCapitalI}
    IN  IF dotted = {}
        THEN [i \in 1..Len(text) |-> LowerChar(text[i])]
        ELSE lower(SubSeq(text, 1, Min(dotted) - 1))
                 \o <<"i", "U+0307">>
                 \o lower(SubSeq(text, Min(dotted) + 1, Len(text)))

\* str.isspace() of one character, which is also the regex class \s
IsSpace(c) == c \in {" ", "\t", "\n", "\r", "\f"}

RECURSIVE lstrip(_)
\* str.lstrip()
lstrip(text) ==
    IF text # <<>> /\ IsSpace(Head(text)) THEN lstrip(Tail(text)) ELSE text

RECURSIVE rstrip(_)
\* str.rstrip()
rstrip(text) ==
    IF text # <<>> /\ IsSpace(text[Len(text)])
    THEN rstrip(SubSeq(text, 1, Len(text) - 1))
    ELSE text

\* str.strip()
strip(text) == rstrip(lstrip(text))

\* str.find(keyword): the lowest 0-based index of keyword in text, or -1
find(text, keyword) ==
    LET at == {i \in 1..(Len(text) - Len(keyword) + 1) :
                  SubSeq(text, i, i + Len(keyword) - 1) = keyword}
    IN  IF at = {} THEN -1 ELSE Min(at) - 1

\* str.startswith(prefix)
startswith(text, prefix) ==
    Len(text) >= Len(prefix) /\ SubSeq(text, 1, Len(prefix)) = prefix

\* `needle in text`
contains(text, needle) == find(text, needle) # -1

(***************************************************************************)
(* URL_PATTERN = re.compile(r"https?://[^\s]+", re.IGNORECASE)             *)
(***************************************************************************)
\* The last index of the run of non-whitespace characters that starts at k.
RunEnd(text, k) ==
    LET stops == {e \in k..Len(text) : IsSpace(text[e])}
    IN  IF stops = {} THEN Len(text) ELSE Min(stops) - 1

\* URL_PATTERN.match at 1-based position i: the index of the last character
\* of the match, or 0 when the pattern does not match there.
UrlMatchEnd(text, i) ==
    LET n == Len(text)
        low(k) == IF k <= n THEN LowerChar(text[k]) ELSE ""
        hasHttp == <<low(i), low(i + 1), low(i + 2), low(i + 3)>> = <<"h", "t", "t", "p">>
        j == IF low(i + 4) = "s" THEN i + 5 ELSE i + 4
        hasSep == <<low(j), low(j + 1), low(j + 2)>> = <<":", "/", "/">>
        k == j + 3
    IN  IF hasHttp /\ hasSep /\ k <= n /\ ~IsSpace(text[k])
        THEN RunEnd(text, k)
        ELSE 0

RECURSIVE FindAllFrom(_, _)
\* URL_PATTERN.findall, scanning from position i: leftmost matches, not overlapping
FindAllFrom(text, i) ==
    IF i > Len(text) THEN <<>>
    ELSE LET e == UrlMatchEnd(text, i)
         IN  IF e > 0
             THEN <<SubSeq(text, i, e)>> \o FindAllFrom(text, e + 1)
             ELSE FindAllFrom(text, i + 1)

RECURSIVE SubFrom(_, _)
\* URL_PATTERN.sub("", text), scanning from position i
SubFrom(text, i) ==
    IF i > Len(text) THEN <<>>
    ELSE LET e == UrlMatchEnd(text, i)
         IN  IF e > 0
             THEN SubFrom(text, e + 1)
             ELSE <<text[i]>> \o SubFrom(text, i + 1)

\* URL_PATTERN.sub("", text)
url_sub(text) == SubFrom(text, 1)

\* extract_urls with each URL returned once
extract_urls_once(text) ==
    LET all == FindAllFrom(text, 1)
        keep == {k \in 1..Len(all) : \A j \in 1..(k - 1) : all[j] # all[k]}
    IN  [n \in 1..Cardinality(keep) |->
            all[CHOOSE k \in keep : Cardinality({x \in keep : x < k}) = n - 1]]

\* extract_urls(text)
extract_urls(text) == FindAllFrom(text, 1)

\* `url in text` for some match of URL_PATTERN: the text holds a URL
HasUrl(text) == extract_urls(text) # <<>>

(***************************************************************************)
(* merge_text                                                              *)
(***************************************************************************)
\* A variant that appends the addition to any non-empty text, present or not.
merge_text_always_append(existing, addition) ==
    IF ~Truthy(existing) THEN addition
    ELSE existing \o <<";", " ">> \o addition

merge_text(existing, addition) ==
    IF ~Truthy(existing) THEN addition
    ELSE IF contains(lower(existing), lower(addition)) THEN existing
    ELSE existing \o <<";", " ">> \o addition

(***************************************************************************)
(* CARD_TYPE_KEYWORD_MAP and infer_card_type_from_text                     *)
(***************************************************************************)
CARD_TYPE_KEYWORD_MAP ==
    << [card_type |-> <<"p", "e", "r", "s", "o", "n", "a", "l">>,
        keywords  |-> << <<"p", "e", "r", "s", "o", "n", "a", "l">> >>],
       [card_type |-> <<"b", "u", "s", "i", "n", "e", "s", "s">>,
        keywords  |-> << <<"b", "u", "s", "i", "n", "e", "s", "s">>,
                         <<"c", "o", "r", "p", "o", "r", "a", "t", "e">>,
                         <<"c", "o", "m", "p", "a", "n", "y">> >>],
       [card_type |-> <<"i", "n", "v", "i", "t", "a", "t", "i", "o", "n">>,
        keywords  |-> << <<"i", "n", "v", "i", "t", "a", "t", "i", "o", "n">>,
                         <<"i", "n", "v", "i", "t", "e">> >>] >>

\* The inner loop: the index of the first keyword, in tuple order, that
\* occurs in the text (the loop breaks there), or -1 when none occurs.
keyword_index(lowered, keywords) ==
    LET hits == {k \in 1..Len(keywords) : find(lowered, keywords[k]) # -1}
    IN  IF hits = {} THEN -1 ELSE find(lowered, keywords[Min(hits)])

\* matches, before the sort: one (index, card_type) per card type hinted at
collect_matches(lowered) ==
    LET every == [c \in 1..Len(CARD_TYPE_KEYWORD_MAP) |->
                    <<keyword_index(lowered, CARD_TYPE_KEYWORD_MAP[c].keywords),
                      CARD_TYPE_KEYWORD_MAP[c].card_type>>]
    IN  SelectSeq(every, LAMBDA m : m[1] # -1)

RECURSIVE sort_by_index(_)
\* matches.sort(key=lambda item: item[0]): a stable sort
sort_by_index(matches) ==
    IF matches = <<>> THEN <<>>
    ELSE LET least == Min({matches[i][1] : i \in 1..Len(matches)})
             first == Min({i \in 1..Len(matches) : matches[i][1] = least})
         IN  <<matches[first]>> \o
             sort_by_index([i \in 1..(Len(matches) - 1) |->
                              IF i < first THEN matches[i] ELSE matches[i + 1]])

RECURSIVE dedupe_types(_, _)
\* ordered_types: each card type once, in the order of the sorted matches
dedupe_types(matches, ordered_types) ==
    IF matches = <<>> THEN ordered_types
    ELSE dedupe_types(Tail(matches),
                      IF \E i \in 1..Len(ordered_types) : ordered_types[i] = Head(matches)[2]
                      THEN ordered_types
                      ELSE Append(ordered_types, Head(matches)[2]))

RECURSIVE join_space(_)
\* " ".join(parts)
join_space(parts) ==
    IF parts = <<>> THEN <<>>
    ELSE IF Len(parts) = 1 THEN parts[1]
    ELSE parts[1] \o <<" ">> \o join_space(Tail(parts))

\* A variant that matches the keywords against the text as typed.
lowered_text_as_typed(text) == text

\* lowered = text.lower()
lowered_text(text) == lower(text)

infer_card_type_from_text(text) ==
    LET matches == collect_matches(lowered_text(text))
        ordered_types == dedupe_types(sort_by_index(matches), <<>>)
    IN  IF matches = <<>> THEN None
        ELSE IF Len(ordered_types) = 1 THEN ordered_types[1]
        ELSE join_space(ordered_types)

(***************************************************************************)
(* CardRequirements                                                        *)
(***************************************************************************)
\* The str | None attributes of the dataclass, in declaration order.
TextFields ==
    <<"occasion", "card_type", "size", "recipient", "relationship", "tone",
      "message_focus", "personalization_details", "color_palette", "typography",
      "visual_style", "must_include_elements", "call_to_action", "delivery_format",
      "deadline", "additional_notes", "brand_notes">>

TextFieldSet == {TextFields[i] : i \in 1..Len(TextFields)}

\* CardRequirements(): every text attribute None, image_urls an empty list
CardRequirements ==
    [f \in TextFieldSet \cup {"image_urls"} |-> IF f = "image_urls" THEN <<>> ELSE None]

\* A variant that does not look at the size.
required_fields_missing_two(req) ==
    SelectSeq(<<"occasion", "card_type">>, LAMBDA f : ~Truthy(req[f]))

required_fields_missing(req) ==
    SelectSeq(<<"occasion", "card_type", "size">>, LAMBDA f : ~Truthy(req[f]))

is_core_complete(req) == required_fields_missing(req) = <<>>

(***************************************************************************)
(* Question and the question bank                                          *)
(***************************************************************************)
\* A plain question: a target field, no handler, the default condition.
PlainQuestion(id, required) ==
    [id |-> id, field |-> id, required |-> required, handler |-> "None", condition |-> "always"]

\* condition=lambda req: (req.card_type or "").lower().startswith("business")
BusinessQuestion(id) ==
    [id |-> id, field |-> id, required |-> FALSE, handler |-> "None", condition |-> "business"]

\* RequirementManager._build_question_bank, in declaration order; the
\* image_urls question has no field (field "" here) and a custom handler.
build_question_bank ==
    << PlainQuestion("occasion", TRUE),
       PlainQuestion("card_type", TRUE),
       PlainQuestion("size", TRUE),
       PlainQuestion("recipient", FALSE),
       PlainQuestion("relationship", FALSE),
       PlainQuestion("tone", FALSE),
       PlainQuestion("message_focus", FALSE),
       PlainQuestion("personalization_details", FALSE),
       PlainQuestion("color_palette", FALSE),
       PlainQuestion("typography", FALSE),
       PlainQuestion("visual_style", FALSE),
       PlainQuestion("must_include_elements", FALSE),
       BusinessQuestion("call_to_action"),
       BusinessQuestion("brand_notes"),
       PlainQuestion("delivery_format", FALSE),
       PlainQuestion("deadline", FALSE),
       [id |-> "image_urls", field |-> "", required |-> FALSE,
        handler |-> "_handle_image_answer", condition |-> "always"],
       PlainQuestion("additional_notes", FALSE) >>

QuestionIds == {build_question_bank[i].id : i \in 1..Len(build_question_bank)}

\* The Question object with the given id.
QuestionById(id) ==
    build_question_bank[CHOOSE i \in 1..Len(build_question_bank) : build_question_bank[i].id = id]

\* The 1-based position of a question in the bank.
BankIndex(id) ==
    CHOOSE i \in 1..Len(build_question_bank) : build_question_bank[i].id = id

\* The business-only condition of call_to_action and brand_notes.
is_business(req) ==
    startswith(lower(OrEmpty(req["card_type"])), <<"b", "u", "s", "i", "n", "e", "s", "s">>)

\* A variant in which every question is always applicable.
condition_ignored(q, req) == TRUE

\* question.condition(requirements)
condition_holds(q, req) ==
    IF q.condition = "business" THEN is_business(req) ELSE TRUE

\* getattr(requirements, question.field or "", None): no attribute is named ""
field_value(q, req) == IF q.field = "" THEN None ELSE req[q.field]

(***************************************************************************)
(* URL capture                                                             *)
(***************************************************************************)
\* A variant that appends every URL, seen before or not.
append_all(image_urls, urls) == image_urls \o urls

RECURSIVE append_unseen(_, _)
\* for url in urls: if url not in image_urls: image_urls.append(url)
append_unseen(image_urls, urls) ==
    IF urls = <<>> THEN image_urls
    ELSE append_unseen(IF \E i \in 1..Len(image_urls) : image_urls[i] = Head(urls)
                       THEN image_urls
                       ELSE Append(image_urls, Head(urls)),
                       Tail(urls))

\* A variant that leaves URL capture to the image question's handler.
capture_nothing(req, message) == req

\* RequirementManager._capture_urls
capture_urls(req, message) ==
    [req EXCEPT !["image_urls"] = append_unseen(@, extract_urls(message))]

\* A variant that stores the addition in place of the text already there.
handle_image_answer_overwrite(req, answer) ==
    LET urls == extract_urls(answer)
        withUrls == [req EXCEPT !["image_urls"] = append_unseen(@, urls)]
        remaining == strip(url_sub(answer))
    IN  IF urls # <<>>
        THEN IF remaining # <<>>
             THEN [withUrls EXCEPT !["must_include_elements"] = remaining]
             ELSE withUrls
        ELSE IF strip(answer) # <<>>
             THEN [withUrls EXCEPT !["must_include_elements"] = strip(answer)]
             ELSE withUrls

\* RequirementManager._handle_image_answer
handle_image_answer(req, answer) ==
    LET urls == extract_urls(answer)
        withUrls == [req EXCEPT !["image_urls"] = append_unseen(@, urls)]
        remaining == strip(url_sub(answer))
    IN  IF urls # <<>>
        THEN IF remaining # <<>>
             THEN [withUrls EXCEPT !["must_include_elements"] = merge_text(@, remaining)]
             ELSE withUrls
        ELSE IF strip(answer) # <<>>
             THEN [withUrls EXCEPT !["must_include_elements"] = merge_text(@, strip(answer))]
             ELSE withUrls

(***************************************************************************)
(* Answer ingestion                                                        *)
(***************************************************************************)
\* A variant without the fallback to the trimmed answer.
stored_value_no_fallback(answer) == strip(url_sub(answer))

\* cleaned or answer.strip(), the value a plain question stores
stored_value(answer) ==
    LET cleaned == strip(url_sub(answer))
    IN  IF cleaned # <<>> THEN cleaned ELSE strip(answer)

\* A variant that stores in a plain field what the answer holds besides its
\* URLs, whatever is left.
apply_answer_cleaned(q, req, answer) ==
    IF q.handler # "None" THEN handle_image_answer(req, answer)
    ELSE IF q.field # "" THEN [req EXCEPT ![q.field] = strip(url_sub(answer))]
    ELSE req

\* Question.apply_answer
apply_answer(q, req, answer) ==
    IF q.handler # "None" THEN handle_image_answer(req, answer)
    ELSE IF q.field # "" THEN [req EXCEPT ![q.field] = stored_value(answer)]
    ELSE req

\* A variant that infers the card type whether card_type is empty or not.
auto_fill_over_card_type(q, req, answer) ==
    IF q.id = "occasion"
    THEN LET inferred == infer_card_type_from_text(answer)
         IN  IF Truthy(inferred) THEN [req EXCEPT !["card_type"] = inferred] ELSE req
    ELSE req

\* RequirementManager._auto_fill_from_answer
auto_fill_from_answer(q, req, answer) ==
    IF q.id = "occasion" /\ strip(OrEmpty(req["card_type"])) = <<>>
    THEN LET inferred == infer_card_type_from_text(answer)
         IN  IF Truthy(inferred) THEN [req EXCEPT !["card_type"] = inferred] ELSE req
    ELSE req

\* A variant that tests the answer before trimming it.
is_blank_untrimmed(raw) == raw = <<>>

\* `if not answer: return` after answer = answer.strip()
is_blank(raw) == strip(raw) = <<>>

\* A variant that files a message received with no question pending under
\* additional_notes.
ingest_answer_filing(req, active, raw) ==
    LET answer == strip(raw)
        captured == capture_urls(req, answer)
    IN  IF is_blank(raw) THEN req
        ELSE IF active = "None"
             THEN [captured EXCEPT !["additional_notes"] = stored_value(answer)]
        ELSE auto_fill_from_answer(QuestionById(active),
                                   apply_answer(QuestionById(active), captured, answer),
                                   answer)

\* RequirementManager.ingest_answer: the record after the call
ingest_answer(req, active, raw) ==
    LET answer == strip(raw)
        captured == capture_urls(req, answer)
    IN  IF is_blank(raw) THEN req
        ELSE IF active = "None" THEN captured
        ELSE auto_fill_from_answer(QuestionById(active),
                                   apply_answer(QuestionById(active), captured, answer),
                                   answer)

(***************************************************************************)
(* Question selection                                                      *)
(***************************************************************************)
\* A variant of pass 1 that, like pass 2, skips the questions already asked.
pass1_skip_asked(req) ==
    SelectSeq(build_question_bank,
              LAMBDA q : /\ q.required
                         /\ q.id \notin asked
                         /\ ~Truthy(field_value(q, req))
                         /\ condition_holds(q, req))

\* Pass 1 of next_question: the required questions it would return, in bank order
pass1_candidates(req) ==
    SelectSeq(build_question_bank,
              LAMBDA q : q.required /\ ~Truthy(field_value(q, req)) /\ condition_holds(q, req))

\* A variant of pass 2 that does not skip the questions already asked.
pass2_ignore_asked(req, seen) ==
    SelectSeq(build_question_bank,
              LAMBDA q : /\ condition_holds(q, req)
                         /\ ~(q.field # "" /\ Truthy(field_value(q, req))))

\* A variant of pass 2 that does not skip the questions whose field is filled.
pass2_ignore_filled(req, seen) ==
    SelectSeq(build_question_bank,
              LAMBDA q : q.id \notin seen /\ condition_holds(q, req))

\* Pass 2 of next_question: the questions that survive its three skips
pass2_candidates(req, seen) ==
    SelectSeq(build_question_bank,
              LAMBDA q : /\ q.id \notin seen
                         /\ condition_holds(q, req)
                         /\ ~(q.field # "" /\ Truthy(field_value(q, req))))

\* RequirementManager.next_question: the id of the question it returns, or "None"
next_question(req, seen) ==
    IF pass1_candidates(req) # <<>> THEN Head(pass1_candidates(req)).id
    ELSE IF pass2_candidates(req, seen) # <<>> THEN Head(pass2_candidates(req, seen)).id
    ELSE "None"

\* A variant that does not mark the returned question as asked.
asked_after_unmarked(req, seen) == seen

\* self._asked after next_question: the returned question is marked asked
asked_after(req, seen) ==
    IF next_question(req, seen) # "None" THEN seen \cup {next_question(req, seen)} ELSE seen

\* A variant whose loop over the bank does not skip the questions already
\* asked.
has_more_questions_asked_or_not(req, seen) ==
    \/ \E i \in 1..Len(build_question_bank) :
           /\ build_question_bank[i].required
           /\ field_value(build_question_bank[i], req) \in {None, <<>>}
           /\ condition_holds(build_question_bank[i], req)
    \/ \E i \in 1..Len(build_question_bank) :
           /\ condition_holds(build_question_bank[i], req)
           /\ ~(build_question_bank[i].field # ""
                   /\ Truthy(field_value(build_question_bank[i], req)))

\* RequirementManager.has_more_questions: any(...) over the required
\* questions, then the loop over the bank with its three skips
has_more_questions(req, seen) ==
    \/ \E i \in 1..Len(build_question_bank) :
           /\ build_question_bank[i].required
           /\ field_value(build_question_bank[i], req) \in {None, <<>>}
           /\ condition_holds(build_question_bank[i], req)
    \/ \E i \in 1..Len(build_question_bank) :
           /\ build_question_bank[i].id \notin seen
           /\ condition_holds(build_question_bank[i], req)
           /\ ~(build_question_bank[i].field # ""
                   /\ Truthy(field_value(build_question_bank[i], req)))

(***************************************************************************)
(* Read operations of CardRequirements and RequirementManager              *)
(***************************************************************************)
\* A list object is modelled by its items and by whether it is the very list
\* object the record holds.
\* A variant that hands out the record's own list.
list_shared(items) == [items |-> items, shared |-> TRUE]

\* list(self.image_urls): a new list with the same items
list_copy(items) == [items |-> items, shared |-> FALSE]

\* CardRequirements.to_summary_dict: a new dict of the seventeen text
\* attributes and a list of the image URLs; extra_keys are the keys a caller
\* has added to it since.
to_summary_dict(req) ==
    [fields |-> [f \in TextFieldSet |-> req[f]],
     image_urls |-> list_copy(req["image_urls"]),
     extra_keys |-> {}]

\* "beautiful card background"
DefaultPexelsQuery ==
    <<"b", "e", "a", "u", "t", "i", "f", "u", "l", " ", "c", "a", "r", "d", " ",
      "b", "a", "c", "k", "g", "r", "o", "u", "n", "d">>

\* CardRequirements.build_pexels_query
build_pexels_query(req) ==
    LET keywords == SelectSeq(<<req["occasion"], req["tone"], req["color_palette"],
                                req["visual_style"]>>, Truthy)
    IN  IF keywords = <<>> THEN DefaultPexelsQuery ELSE join_space(keywords)

\* The labels of the optional fields in summary(), in dict order.
SummaryLabels ==
    << <<"Recipient", "recipient">>, <<"Relationship", "relationship">>,
       <<"Tone", "tone">>, <<"Message focus", "message_focus">>,
       <<"Personal details", "personalization_details">>,
       <<"Color palette", "color_palette">>, <<"Typography", "typography">>,
       <<"Visual style", "visual_style">>, <<"Must include", "must_include_elements">>,
       <<"Call to action", "call_to_action">>, <<"Delivery format", "delivery_format">>,
       <<"Deadline", "deadline">>, <<"Additional notes", "additional_notes">>,
       <<"Brand notes", "brand_notes">> >>

\* `value or '-'` with the em dash U+2014 of the source
OrDash(value) == IF Truthy(value) THEN value ELSE <<"U+2014">>

\* RequirementManager.summary: the parts it joins with "\n", each part a
\* label and the text after it
summary(req) ==
    LET optional == SelectSeq(SummaryLabels, LAMBDA p : Truthy(req[p[2]]))
    IN  << <<"Collected requirements:", <<>> >>,
           <<"Occasion", OrDash(req["occasion"])>>,
           <<"Card type", OrDash(req["card_type"])>>,
           <<"Size", OrDash(req["size"])>> >>
        \o [i \in 1..Len(optional) |-> <<optional[i][1], req[optional[i][2]]>>]
        \o (IF req["image_urls"] # <<>>
            THEN << <<"Image URLs:", <<>> >> >>
                 \o [i \in 1..Len(req["image_urls"]) |-> <<"-", req["image_urls"][i]>>]
            ELSE <<>>)

(***************************************************************************)
(* Inputs                                                                  *)
(***************************************************************************)
\* "https://a"
UrlA == <<"h", "t", "t", "p", "s", ":", "/", "/", "a">>

\* "HTTP://b"
UrlB == <<"H", "T", "T", "P", ":", "/", "/", "b">>

\* " gala https://a ": text and a URL, with whitespace around
AnsTextUrl == <<" ", "g", "a", "l", "a", " ">> \o UrlA \o <<" ">>

\* "HTTP://b https://a HTTP://b": nothing but URLs, one of them twice
AnsUrlsOnly == UrlB \o <<" ">> \o UrlA \o <<" ">> \o UrlB

\* "company invite business"
AnsMixed ==
    <<"c", "o", "m", "p", "a", "n", "y", " ", "i", "n", "v", "i", "t", "e", " ",
      "b", "u", "s", "i", "n", "e", "s", "s">>

\* "Business"
AnsBusiness == <<"B", "u", "s", "i", "n", "e", "s", "s">>

\* "personal"
AnsPersonal == <<"p", "e", "r", "s", "o", "n", "a", "l">>

\* The answers a user may type that are not blank.
Answers == {AnsTextUrl, AnsUrlsOnly, AnsMixed, AnsBusiness, AnsPersonal}

\* "" and "  \t"
BlankAnswers == {<<>>, <<" ", " ", "\t">>}

Inputs == Answers \cup BlankAnswers

(***************************************************************************)
(* RequirementManager under any interleaving of its two calls              *)
(***************************************************************************)
\* No read operation has returned yet.
NothingReturned == [op |-> "None", value |-> None]

\* search_backgrounds has not been called.
NoCall ==
    [called |-> FALSE, api_key |-> None, query |-> <<>>, requested |-> FALSE,
     outcome |-> "None", raised |-> FALSE]

\* self._llm.call has not been called.
NoResponse == [kind |-> "not called", text |-> <<>>]

\* No read operation has returned, merge_text and CardDesignCrew.run have
\* not been called.
OutsideIdle ==
    /\ returned = NothingReturned
    /\ merged = None
    /\ merge_addition = <<>>
    /\ raw_output = None
    /\ blueprint = None
    /\ html_preview = None
    /\ html_generation_prompt = None
    /\ generated_html = None
    /\ generated_html_raw = None
    /\ pexels_images = <<>>
    /\ response = NoResponse
    /\ pexels_call = NoCall

\* RequirementManager.__init__
Init ==
    /\ requirements = CardRequirements
    /\ asked = {}
    /\ active_question = "None"
    /\ greeted = FALSE
    /\ answered = 0
    /\ pc = "api"
    /\ question = "None"
    /\ crew = "None"
    /\ OutsideIdle

\* manager.next_question()
NextQuestion ==
    /\ pc = "api"
    /\ active_question' = next_question(requirements, asked)
    /\ asked' = asked_after(requirements, asked)
    /\ UNCHANGED <<requirements, greeted, answered, pc, question, crew>>
    /\ UNCHANGED outside_interview

\* A variant that drops the pending question once it has an answer.
IngestAnswerAndAdvance(raw) ==
    /\ pc = "api"
    /\ is_blank(raw) \/ answered < MaxAnswers
    /\ answered' = IF is_blank(raw) THEN answered ELSE answered + 1
    /\ requirements' = ingest_answer(requirements, active_question, raw)
    /\ active_question' = IF is_blank(raw) THEN active_question ELSE "None"
    /\ UNCHANGED <<asked, greeted, pc, question, crew>>
    /\ UNCHANGED outside_interview

\* manager.ingest_answer(raw)
IngestAnswer(raw) ==
    /\ pc = "api"
    /\ is_blank(raw) \/ answered < MaxAnswers
    /\ answered' = IF is_blank(raw) THEN answered ELSE answered + 1
    /\ requirements' = ingest_answer(requirements, active_question, raw)
    /\ UNCHANGED <<asked, active_question, greeted, pc, question, crew>>
    /\ UNCHANGED outside_interview

Next ==
    \/ NextQuestion
    \/ \E raw \in Inputs : IngestAnswer(raw)

Spec == Init /\ [][Next]_vars

(***************************************************************************)
(* cli.chat: the loop that drives one RequirementManager                   *)
(***************************************************************************)
\* {"done", "design banao", "design shuru karo", "generate"}
COMPLETION_KEYWORDS ==
    { <<"d", "o", "n", "e">>,
      <<"d", "e", "s", "i", "g", "n", " ", "b", "a", "n", "a", "o">>,
      <<"d", "e", "s", "i", "g", "n", " ", "s", "h", "u", "r", "u", " ", "k", "a", "r", "o">>,
      <<"g", "e", "n", "e", "r", "a", "t", "e">> }

\* normalized = answer.strip().lower(); normalized in {...}
is_completion_keyword(raw) == lower(strip(raw)) \in COMPLETION_KEYWORDS

\* "done"
AnsDone == <<"d", "o", "n", "e">>

\* " Generate "
AnsGenerate == <<" ", "G", "e", "n", "e", "r", "a", "t", "e", " ">>

\* What the user may type at the prompt of the chat loop: answers, blank
\* lines and completion keywords.
ChatInputs == {AnsTextUrl, AnsBusiness, AnsPersonal} \cup BlankAnswers \cup {AnsDone, AnsGenerate}

\* chat() up to `manager = RequirementManager()`
ChatInit ==
    /\ requirements = CardRequirements
    /\ asked = {}
    /\ active_question = "None"
    /\ greeted = FALSE
    /\ answered = 0
    /\ pc = "start"
    /\ question = "None"
    /\ crew = "None"
    /\ OutsideIdle

\* welcome = manager.welcome()
ChatWelcome ==
    /\ pc = "start"
    /\ greeted' = TRUE
    /\ pc' = "first_question"
    /\ UNCHANGED <<requirements, asked, active_question, answered, question, crew>>
    /\ UNCHANGED outside_interview

\* question = manager.next_question(), before the loop
ChatFirstQuestion ==
    /\ pc = "first_question"
    /\ question' = next_question(requirements, asked)
    /\ active_question' = next_question(requirements, asked)
    /\ asked' = asked_after(requirements, asked)
    /\ pc' = IF next_question(requirements, asked) # "None" THEN "loop" ELSE "after_loop"
    /\ UNCHANGED <<requirements, greeted, answered, crew>>
    /\ UNCHANGED outside_interview

\* A variant that lets the loop end as soon as the occasion is known.
may_break_early(req) == Truthy(req["occasion"])

\* `break` is allowed by manager.requirements.is_core_complete()
may_break(req) == is_core_complete(req)

\* One pass of `while question:` with the answer typed at the prompt.
ChatAnswer(raw) ==
    /\ pc = "loop"
    /\ is_blank(raw) \/ is_completion_keyword(raw) \/ answered < MaxAnswers
    /\ IF is_completion_keyword(raw)
       THEN IF may_break(requirements)
            THEN /\ pc' = "after_loop"
                 /\ UNCHANGED <<requirements, asked, active_question, answered, question>>
            ELSE UNCHANGED <<requirements, asked, active_question, answered, question, pc>>
       ELSE /\ requirements' = ingest_answer(requirements, active_question, raw)
            /\ answered' = IF is_blank(raw) THEN answered ELSE answered + 1
            /\ question' = next_question(requirements', asked)
            /\ active_question' = next_question(requirements', asked)
            /\ asked' = asked_after(requirements', asked)
            /\ pc' = IF next_question(requirements', asked) # "None" THEN "loop" ELSE "after_loop"
    /\ UNCHANGED <<greeted, crew>>
    /\ UNCHANGED outside_interview

\* `if not manager.requirements.is_core_complete(): ... return`, else the summary
ChatCheckCore ==
    /\ pc = "after_loop"
    /\ pc' = IF is_core_complete(requirements) THEN "confirm" ELSE "refused"
    /\ UNCHANGED <<requirements, asked, active_question, greeted, answered, question, crew>>
    /\ UNCHANGED outside_interview

\* typer.confirm(...)
ChatConfirm(yes) ==
    /\ pc = "confirm"
    /\ pc' = IF yes THEN "construct" ELSE "declined"
    /\ UNCHANGED <<requirements, asked, active_question, greeted, answered, question, crew>>
    /\ UNCHANGED outside_interview

\* crew = CardDesignCrew(settings, manager.requirements); the constructor
\* raises ValueError when the LLM settings are invalid.
ChatConstruct(valid) ==
    /\ pc = "construct"
    /\ crew' = IF valid THEN "constructed" ELSE "config_error"
    /\ pc' = IF valid THEN "run" ELSE "exit_1"
    /\ UNCHANGED <<requirements, asked, active_question, greeted, answered, question>>
    /\ UNCHANGED outside_interview

ChatNext ==
    \/ ChatWelcome
    \/ ChatFirstQuestion
    \/ \E raw \in ChatInputs : ChatAnswer(raw)
    \/ ChatCheckCore
    \/ \E yes \in BOOLEAN : ChatConfirm(yes)
    \/ \E valid \in BOOLEAN : ChatConstruct(valid)

ChatSpec == ChatInit /\ [][ChatNext]_vars

(***************************************************************************)
(* Vocabulary of the properties                                            *)
(***************************************************************************)
\* A field that is None or "".
IsEmptyField(f) == requirements[f] = None \/ requirements[f] = <<>>

AllRequiredFilled ==
    ~IsEmptyField("occasion") /\ ~IsEmptyField("card_type") /\ ~IsEmptyField("size")

\* The first of occasion, card_type, size that is empty, or "None".
FirstMissingRequired ==
    IF IsEmptyField("occasion") THEN "occasion"
    ELSE IF IsEmptyField("card_type") THEN "card_type"
    ELSE IF IsEmptyField("size") THEN "size"
    ELSE "None"

RequiredIds == {"occasion", "card_type", "size"}

BusinessIds == {"call_to_action", "brand_notes"}

\* next_question has returned none: nothing is pending after a question was asked.
InterviewComplete == active_question = "None" /\ asked # {}

InSeq(seq, x) == \E i \in 1..Len(seq) : seq[i] = x

NoDuplicates(seq) == \A i, j \in 1..Len(seq) : seq[i] = seq[j] => i = j

\* The position of the first occurrence of x in seq.
FirstAt(seq, x) == Min({i \in 1..Len(seq) : seq[i] = x})

\* Every character of the text that is not whitespace lies inside a URL.
OnlyUrls(text) ==
    \A i \in 1..Len(text) :
        IsSpace(text[i]) \/ \E start \in 1..i : UrlMatchEnd(text, start) >= i

\* The card types (positions in CARD_TYPE_KEYWORD_MAP) one of whose keywords
\* occurs in the text, whatever its case.
HintedCategories(text) ==
    {c \in 1..Len(CARD_TYPE_KEYWORD_MAP) :
        \E k \in 1..Len(CARD_TYPE_KEYWORD_MAP[c].keywords) :
            contains(lower(text), CARD_TYPE_KEYWORD_MAP[c].keywords[k])}

\* The earliest position in the text of any keyword of card type c.
EarliestHint(c, text) ==
    Min({find(lower(text), CARD_TYPE_KEYWORD_MAP[c].keywords[k]) :
            k \in {k \in 1..Len(CARD_TYPE_KEYWORD_MAP[c].keywords) :
                      contains(lower(text), CARD_TYPE_KEYWORD_MAP[c].keywords[k])}})

RECURSIVE ByEarliestHint(_, _)
\* The names of the card types in cs, ordered by their earliest hint in the text.
ByEarliestHint(cs, text) ==
    IF cs = {} THEN <<>>
    ELSE LET c == CHOOSE c \in cs : \A d \in cs : EarliestHint(c, text) <= EarliestHint(d, text)
         IN  <<CARD_TYPE_KEYWORD_MAP[c].card_type>> \o ByEarliestHint(cs \ {c}, text)

(***************************************************************************)
(* C1                                                                      *)
(***************************************************************************)
\* C1: while a required field is empty, next_question returns the required
\* question that comes first in bank order among those whose field is empty,
\* asked before or not; an optional question is pending only once occasion,
\* card_type and size are all filled.
C1_RequiredFirst ==
    /\ FirstMissingRequired # "None" =>
           next_question(requirements, asked) = FirstMissingRequired
    /\ active_question \notin RequiredIds \cup {"None"} => AllRequiredFilled

\* The card-type question was returned, its field is still empty after an
\* answer to the occasion question, and it is what the next call returns.
C1_Witness ==
    /\ active_question = "card_type"
    /\ "card_type" \in asked
    /\ ~IsEmptyField("occasion")
    /\ IsEmptyField("card_type")
    /\ next_question(requirements, asked) = "card_type"

(***************************************************************************)
(* C2                                                                      *)
(***************************************************************************)
\* next_question returns none, the loop is left and the crew is constructed
\* only with occasion, card_type and size filled.
C2_State ==
    /\ next_question(requirements, asked) = "None" => AllRequiredFilled
    /\ pc \in {"after_loop", "confirm", "declined", "construct", "run", "exit_1"} =>
           AllRequiredFilled
    /\ crew # "None" => AllRequiredFilled

\* A completion keyword typed while a required field is missing changes nothing.
C2_Step ==
    \A raw \in ChatInputs :
        (ChatAnswer(raw) /\ is_completion_keyword(raw) /\ ~AllRequiredFilled) =>
            UNCHANGED <<pc, question, requirements, asked, active_question, answered>>

\* C2: blueprint generation is never started with a required field missing:
\* next_question returns none only with the three required fields filled, a
\* completion keyword typed while one is missing neither ends the loop nor is
\* ingested nor changes the pending question, and CardDesignCrew is
\* constructed only when the record is core-complete.
C2_NoBlueprintWithoutCore == [](C2_State) /\ [][C2_Step]_vars

\* The crew was constructed, after the chat loop, from a core-complete record.
C2_Witness == crew = "constructed" /\ pc = "run" /\ AllRequiredFilled

(***************************************************************************)
(* C3                                                                      *)
(***************************************************************************)
\* C3: if card_type contains "business" anywhere in its value once the three
\* required fields are filled, then by the time next_question returns none
\* both the call_to_action and the brand_notes question have been surfaced.
C3_BusinessBranch ==
    ( /\ InterviewComplete
      /\ AllRequiredFilled
      /\ contains(requirements["card_type"], <<"b", "u", "s", "i", "n", "e", "s", "s">>) )
    => BusinessIds \subseteq asked

(***************************************************************************)
(* C4                                                                      *)
(***************************************************************************)
\* C4: in every state where card_type is "personal", next_question does not
\* return the call_to_action or the brand_notes question, and neither of them
\* is the question last returned.
C4_PersonalBranch ==
    requirements["card_type"] = AnsPersonal =>
        /\ next_question(requirements, asked) \notin BusinessIds
        /\ active_question \notin BusinessIds

\* A personal card whose interview has passed the place of the business
\* questions in the bank.
C4_Witness ==
    /\ requirements["card_type"] = AnsPersonal
    /\ active_question = "delivery_format"
    /\ "must_include_elements" \in asked

(***************************************************************************)
(* C5                                                                      *)
(***************************************************************************)
\* An ingest_answer call with a blank answer leaves the session as it was.
C5_Step ==
    \A raw \in BlankAnswers :
        IngestAnswer(raw) => UNCHANGED <<requirements, asked, active_question>>

\* C5: ingest_answer with an empty or whitespace-only answer is a no-op in
\* every state: the record, the image URL list, the asked set and the pending
\* question are unchanged.
C5_BlankIsNoOp ==
    /\ [](\A raw \in BlankAnswers :
             ingest_answer(requirements, active_question, raw) = requirements)
    /\ [][C5_Step]_vars

\* A session with a pending question whose field is still empty and with
\* URLs already collected, on which a blank answer changes nothing.
C5_Witness ==
    /\ active_question = "card_type"
    /\ IsEmptyField("card_type")
    /\ requirements["image_urls"] # <<>>

(***************************************************************************)
(* C6                                                                      *)
(***************************************************************************)
\* After a non-blank answer every URL of the answer is in image_urls; with no
\* question pending nothing else changes.
C6_Step ==
    \A raw \in Answers :
        IngestAnswer(raw) =>
            /\ \A i \in 1..Len(extract_urls(raw)) :
                   InSeq(requirements'["image_urls"], extract_urls(raw)[i])
            /\ active_question = "None" =>
                   /\ \A f \in TextFieldSet : requirements'[f] = requirements[f]
                   /\ UNCHANGED <<asked, active_question>>

\* C6: after ingest_answer with any non-blank answer, every URL occurring in
\* the answer is present in image_urls, whichever question is pending; when no
\* question is pending, image_urls is the only part of the session that may
\* change.
C6_UrlCapture == [][C6_Step]_vars

\* The interview is over, only the occasion and size questions were answered
\* (with answers that hold no URL), and two URLs were captured from a third
\* answer.
C6_Witness ==
    /\ InterviewComplete
    /\ answered = 3
    /\ requirements["occasion"] = AnsBusiness
    /\ requirements["size"] = AnsPersonal
    /\ \A f \in TextFieldSet \ {"occasion", "card_type", "size"} : IsEmptyField(f)
    /\ requirements["image_urls"] = <<UrlB, UrlA>>

(***************************************************************************)
(* C7                                                                      *)
(***************************************************************************)
\* Every step keeps the list as a prefix; an ingest_answer step appends exactly
\* the URLs of the answer that are new to the list, each once, in the order of
\* their first appearance in the answer.
C7_Step ==
    LET old == requirements["image_urls"]
        new == requirements'["image_urls"]
        added == SubSeq(new, Len(old) + 1, Len(new))
    IN  /\ Len(new) >= Len(old)
        /\ SubSeq(new, 1, Len(old)) = old
        /\ \A raw \in Answers :
               IngestAnswer(raw) =>
                   /\ \A i \in 1..Len(added) :
                          InSeq(extract_urls(raw), added[i]) /\ ~InSeq(old, added[i])
                   /\ \A i \in 1..Len(extract_urls(raw)) :
                          InSeq(old, extract_urls(raw)[i]) \/ InSeq(added, extract_urls(raw)[i])
                   /\ \A i, j \in 1..Len(added) :
                          i < j => FirstAt(extract_urls(raw), added[i])
                                       < FirstAt(extract_urls(raw), added[j])

\* C7: image_urls never holds a duplicate, and every operation only appends
\* to it: entries already present are never removed or reordered, and the URLs
\* new to the list are appended in their order of appearance in the answer.
C7_UniqueAppendOnly == [](NoDuplicates(requirements["image_urls"])) /\ [][C7_Step]_vars

\* Both URLs of "HTTP://b https://a HTTP://b" were appended to a list that
\* already held one of them.
C7_Witness == requirements["image_urls"] = <<UrlA, UrlB>>

(***************************************************************************)
(* C8                                                                      *)
(***************************************************************************)
\* The value a plain question stores for a non-blank answer.
C8_Step ==
    \A raw \in Answers :
        ( /\ IngestAnswer(raw)
          /\ active_question # "None"
          /\ QuestionById(active_question).handler = "None"
          /\ QuestionById(active_question).field # "" )
        => LET value == requirements'[QuestionById(active_question).field]
               trimmed == strip(raw)
               without == strip(url_sub(trimmed))
           IN  /\ value = IF without # <<>> THEN without ELSE trimmed
               /\ value # <<>> /\ value # None
               /\ HasUrl(value) => OnlyUrls(raw)

\* C8: when a question with a target field and no custom handler is pending
\* and a non-blank answer is ingested, the target field becomes the answer
\* with every URL removed, trimmed, or, if that is empty, the trimmed original
\* answer; the field is non-empty afterwards, and it holds a URL only when the
\* answer consisted of nothing but URLs.
C8_DefaultAssignment == [][C8_Step]_vars

\* One plain question stored the text left of " gala https://a ", another
\* stored an answer that was nothing but URLs.
C8_Witness ==
    /\ requirements["occasion"] = <<"g", "a", "l", "a">>
    /\ requirements["size"] = AnsUrlsOnly

(***************************************************************************)
(* C9                                                                      *)
(***************************************************************************)
\* The card type after an answer to the occasion question, card_type empty.
C9_Step ==
    \A raw \in Answers :
        (IngestAnswer(raw) /\ active_question = "occasion" /\ IsEmptyField("card_type"))
        => /\ Cardinality(HintedCategories(raw)) = 1 =>
                  requirements'["card_type"] =
                      CARD_TYPE_KEYWORD_MAP[CHOOSE c \in HintedCategories(raw) : TRUE].card_type
           /\ HintedCategories(raw) = {} =>
                  requirements'["card_type"] = requirements["card_type"]

\* C9: when the occasion question is pending, card_type is empty and the
\* answer hints at exactly one category (matched case-insensitively),
\* ingest_answer sets card_type to that category name; when no category is
\* hinted card_type stays empty.
C9_SingleCategory == [][C9_Step]_vars

\* "Business" was given as the occasion and card_type was inferred as "business".
C9_Witness ==
    /\ requirements["occasion"] = AnsBusiness
    /\ requirements["card_type"] = <<"b", "u", "s", "i", "n", "e", "s", "s">>
    /\ active_question = "occasion"

(***************************************************************************)
(* C10                                                                     *)
(***************************************************************************)
\* The card type after an occasion answer that hints at several categories.
C10_Step ==
    \A raw \in Answers :
        ( /\ IngestAnswer(raw)
          /\ active_question = "occasion"
          /\ IsEmptyField("card_type")
          /\ Cardinality(HintedCategories(raw)) >= 2 )
        => requirements'["card_type"] =
               join_space(ByEarliestHint(HintedCategories(raw), raw))

\* C10: when the occasion answer hints at two or more distinct categories, the
\* inferred card_type is the category names joined by single spaces, each
\* once, ordered by the earliest occurrence in the text of any keyword of the
\* category.
C10_SeveralCategories == [][C10_Step]_vars

(***************************************************************************)
(* RequirementManager in a session that goes on to the image question      *)
(***************************************************************************)
\* Non-blank answers ingested in one session that reaches the image question.
MaxImageAnswers == 4

\* What the user types in such a session: text, text with a URL, URLs only,
\* a blank line.
ImageInputs == {AnsBusiness, AnsTextUrl, AnsUrlsOnly, <<" ">>}

\* manager.ingest_answer(raw)
ImageAnswer(raw) ==
    /\ pc = "api"
    /\ is_blank(raw) \/ answered < MaxImageAnswers
    /\ answered' = IF is_blank(raw) THEN answered ELSE answered + 1
    /\ requirements' = ingest_answer(requirements, active_question, raw)
    /\ UNCHANGED <<asked, active_question, greeted, pc, question, crew>>
    /\ UNCHANGED outside_interview

ImageNext ==
    \/ NextQuestion
    \/ \E raw \in ImageInputs : ImageAnswer(raw)

ImageSpec == Init /\ [][ImageNext]_vars

(***************************************************************************)
(* C11                                                                     *)
(***************************************************************************)
\* A non-blank answer ingested while the image question is pending.
C11_Step ==
    \A raw \in ImageInputs :
        (ImageAnswer(raw) /\ active_question = "image_urls" /\ ~is_blank(raw)) =>
            LET answer == strip(raw)
                urls == extract_urls(answer)
                rest == strip(url_sub(answer))
                old == requirements["must_include_elements"]
                new == requirements'["must_include_elements"]
                extra == IF urls # <<>> THEN rest ELSE answer
            IN  /\ \A i \in 1..Len(urls) : InSeq(requirements'["image_urls"], urls[i])
                /\ (urls # <<>> /\ rest # <<>>) => new = merge_text(old, rest)
                /\ (urls # <<>> /\ rest = <<>>) => new = old
                /\ urls = <<>> =>
                       /\ new = merge_text(old, answer)
                       /\ requirements'["image_urls"] = requirements["image_urls"]
                /\ Truthy(old) => (new = old \/ new = old \o <<";", " ">> \o extra)
                /\ \A f \in TextFieldSet \ {"must_include_elements"} :
                       requirements'[f] = requirements[f]

\* C11: when the image_urls question is pending and a non-blank answer is
\* ingested, every URL of the answer is in image_urls afterwards; if the answer
\* held URLs, the text left after removing them is merged into
\* must_include_elements when it is not blank and must_include_elements is
\* unchanged otherwise; if it held no URL, the whole trimmed answer is merged
\* into must_include_elements and image_urls is unchanged. Text already in
\* must_include_elements is never discarded: the new value is the old one, or
\* the old one followed by "; " and the addition.
C11_ImageHandler == [][C11_Step]_vars

\* The image question is pending and its answer "Business" was merged into the
\* text "gala" that the must-include question had stored.
C11_Witness ==
    /\ active_question = "image_urls"
    /\ requirements["must_include_elements"] =
           <<"g", "a", "l", "a", ";", " ">> \o AnsBusiness
    /\ requirements["image_urls"] = <<UrlA>>

(***************************************************************************)
(* merge_text on its own: one text, merged into again and again            *)
(***************************************************************************)
\* merge_text is applied while the text is at most this long.
MaxMergedLen == 10

\* "Logo"
TxtLogo == <<"L", "o", "g", "o">>

\* The `existing` argument of the first call: None, "" or a text.
MergeStarts == {None, <<>>, TxtLogo}

\* The `addition` arguments: "", "logo", "LOGO", "go", "gala", "red".
MergeAdditions ==
    { <<>>,
      <<"l", "o", "g", "o">>,
      <<"L", "O", "G", "O">>,
      <<"g", "o">>,
      <<"g", "a", "l", "a">>,
      <<"r", "e", "d">> }

\* Before the first merge_text call of a caller that keeps the merged text.
MergeInit ==
    /\ requirements = CardRequirements
    /\ asked = {}
    /\ active_question = "None"
    /\ greeted = FALSE
    /\ answered = 0
    /\ pc = "merge_text"
    /\ question = "None"
    /\ crew = "None"
    /\ returned = NothingReturned
    /\ merged \in MergeStarts
    /\ merge_addition = <<>>
    /\ raw_output = None
    /\ blueprint = None
    /\ html_preview = None
    /\ html_generation_prompt = None
    /\ generated_html = None
    /\ generated_html_raw = None
    /\ pexels_images = <<>>
    /\ response = NoResponse
    /\ pexels_call = NoCall

\* merged = merge_text(merged, a)
MergeText(a) ==
    /\ pc = "merge_text"
    /\ Len(OrEmpty(merged)) <= MaxMergedLen
    /\ merged' = merge_text(merged, a)
    /\ merge_addition' = a
    /\ UNCHANGED <<interview_vars, returned, run_vars>>

MergeNext == \E a \in MergeAdditions : MergeText(a)

MergeSpec == MergeInit /\ [][MergeNext]_vars

(***************************************************************************)
(* C12                                                                     *)
(***************************************************************************)
\* The same letter, whatever the case.
SameLetter(c, d) == LowerChar(c) = LowerChar(d)

\* `needle` occurs in `text` when case is ignored.
ContainsIgnoringCase(text, needle) ==
    \E i \in 1..(Len(text) - Len(needle) + 1) :
        \A k \in 1..Len(needle) : SameLetter(text[i + k - 1], needle[k])

\* One call of merge_text, and what the same call would give on its result.
C12_Step ==
    \A a \in MergeAdditions :
        MergeText(a) =>
            /\ merge_text(merged', a) = merged'
            /\ merged' = IF merged = None \/ merged = <<>> THEN a
                         ELSE IF ContainsIgnoringCase(merged, a) THEN merged
                         ELSE merged \o <<";", " ">> \o a

\* C12: merge_text is idempotent in its addition: for every existing value e
\* (none, empty or a text) and every addition a,
\* merge_text(merge_text(e, a), a) = merge_text(e, a), where merge_text(e, a)
\* is a when e is none or empty, e when a occurs in e ignoring case, and
\* e + "; " + a otherwise.
C12_MergeIdempotent == [][C12_Step]_vars

\* "gala" was appended to "Logo", and "go", which occurs in it, was merged
\* into the result.
C12_Witness ==
    /\ merged = TxtLogo \o <<";", " ", "g", "a", "l", "a">>
    /\ merge_addition = <<"g", "o">>

(***************************************************************************)
(* C13                                                                     *)
(***************************************************************************)
\* The place of a required field in the fixed order occasion, card_type, size.
RequiredRank(f) == IF f = "occasion" THEN 1 ELSE IF f = "card_type" THEN 2 ELSE 3

\* The list names exactly the required fields that are empty, in the fixed
\* order; the record is core-complete exactly when the list is empty.
C13_State ==
    LET missing == required_fields_missing(requirements)
    IN  /\ \A i \in 1..Len(missing) : missing[i] \in RequiredIds
        /\ \A f \in RequiredIds : InSeq(missing, f) <=> IsEmptyField(f)
        /\ \A i, j \in 1..Len(missing) :
               i < j => RequiredRank(missing[i]) < RequiredRank(missing[j])
        /\ is_core_complete(requirements) <=> (missing = <<>>)
        /\ requirements = CardRequirements => missing = <<"occasion", "card_type", "size">>

\* A non-blank answer to a required question fills its field, and a filled
\* required field stays filled, so three such answers leave the list empty.
C13_Step ==
    /\ \A raw \in Answers :
           (IngestAnswer(raw) /\ active_question \in RequiredIds) =>
               Truthy(requirements'[active_question])
    /\ \A f \in RequiredIds : Truthy(requirements[f]) => Truthy(requirements'[f])

\* C13: required_fields_missing returns exactly the sub-list of
\* [occasion, card_type, size], in that fixed order, of the fields that are
\* none or empty, and is_core_complete() is true if and only if that list is
\* empty; on a fresh record the list is all three, and after three non-blank
\* answers to the three required questions it is empty.
C13_MissingRequired == [](C13_State) /\ [][C13_Step]_vars

\* The three required questions were answered, one answer each, and nothing is
\* missing.
C13_Witness ==
    /\ answered = 3
    /\ requirements["occasion"] = <<"g", "a", "l", "a">>
    /\ requirements["card_type"] = AnsBusiness
    /\ requirements["size"] = AnsPersonal
    /\ required_fields_missing(requirements) = <<>>
    /\ is_core_complete(requirements)

(***************************************************************************)
(* RequirementManager with its read operations and a caller of them        *)
(***************************************************************************)
\* Non-blank answers ingested in one session whose read operations are called.
MaxReadAnswers == 2

\* What the user types in such a session.
ReadInputs == {AnsBusiness, AnsTextUrl, <<" ">>}

\* manager.ingest_answer(raw)
ReadAnswer(raw) ==
    /\ pc = "api"
    /\ is_blank(raw) \/ answered < MaxReadAnswers
    /\ answered' = IF is_blank(raw) THEN answered ELSE answered + 1
    /\ requirements' = ingest_answer(requirements, active_question, raw)
    /\ UNCHANGED <<asked, active_question, greeted, pc, question, crew>>
    /\ UNCHANGED outside_interview

\* The session around a read operation that returns `value`.
Returns(op, value) ==
    /\ pc = "api"
    /\ returned' = [op |-> op, value |-> value]
    /\ UNCHANGED <<interview_vars, merge_vars, run_vars>>

\* manager.summary()
Summary == Returns("summary", summary(requirements))

\* manager.requirements.to_summary_dict()
ToSummaryDict == Returns("to_summary_dict", to_summary_dict(requirements))

\* manager.requirements.build_pexels_query()
BuildPexelsQuery == Returns("build_pexels_query", build_pexels_query(requirements))

\* manager.requirements.required_fields_missing()
RequiredFieldsMissing ==
    Returns("required_fields_missing", required_fields_missing(requirements))

\* manager.requirements.is_core_complete()
IsCoreComplete == Returns("is_core_complete", is_core_complete(requirements))

\* manager.has_more_questions()
HasMoreQuestions == Returns("has_more_questions", has_more_questions(requirements, asked))

\* requirement_summary["pexels_inspirations"] = inspirations, in
\* CardDesignCrew.run: a key is added to the returned dict.
RunAddsInspirations ==
    /\ pc = "api"
    /\ returned.op = "to_summary_dict"
    /\ "pexels_inspirations" \notin returned.value.extra_keys
    /\ returned' = [returned EXCEPT !.value.extra_keys = @ \cup {"pexels_inspirations"}]
    /\ UNCHANGED <<interview_vars, merge_vars, run_vars>>

\* A caller appends a URL to the list inside the returned dict; the record's
\* list changes with it exactly when it is the same list object.
CallerAppendsUrl(url) ==
    /\ pc = "api"
    /\ returned.op = "to_summary_dict"
    /\ ~InSeq(returned.value.image_urls.items, url)
    /\ returned' = [returned EXCEPT !.value.image_urls.items = Append(@, url)]
    /\ requirements' = IF returned.value.image_urls.shared
                       THEN [requirements EXCEPT !["image_urls"] = Append(@, url)]
                       ELSE requirements
    /\ UNCHANGED <<asked, active_question, greeted, answered, pc, question, crew>>
    /\ UNCHANGED <<merge_vars, run_vars>>

ReadNext ==
    \/ NextQuestion
    \/ \E raw \in ReadInputs : ReadAnswer(raw)
    \/ Summary
    \/ ToSummaryDict
    \/ BuildPexelsQuery
    \/ RequiredFieldsMissing
    \/ IsCoreComplete
    \/ HasMoreQuestions
    \/ RunAddsInspirations
    \/ \E url \in {UrlA, UrlB} : CallerAppendsUrl(url)

ReadSpec == Init /\ [][ReadNext]_vars

(***************************************************************************)
(* C14                                                                     *)
(***************************************************************************)
\* A read operation has returned something else than the last one did, or a
\* caller has changed the dict it was handed.
C14_Read == returned'.op # returned.op \/ returned'.value # returned.value

\* C14: summary(), to_summary_dict(), build_pexels_query(),
\* required_fields_missing(), is_core_complete() and has_more_questions()
\* leave the whole session unchanged (every record field, image_urls, the
\* asked set, the pending question); the list inside the dict returned by
\* to_summary_dict() is a copy, so adding keys to the returned dict or
\* changing it, as CardDesignCrew.run does, never alters the record.
C14_ReadsChangeNothing ==
    [][C14_Read => UNCHANGED <<requirements, asked, active_question, greeted>>]_vars

\* The dict returned for a record with one image URL has received the key
\* "pexels_inspirations" and a second URL in its list; the record still has
\* its one URL.
C14_Witness ==
    /\ returned.op = "to_summary_dict"
    /\ "pexels_inspirations" \in returned.value.extra_keys
    /\ returned.value.image_urls.items = <<UrlA, UrlB>>
    /\ requirements["image_urls"] = <<UrlA>>

(***************************************************************************)
(* json.loads, as CardDesignCrew._safe_parse_json uses it                  *)
(*                                                                         *)
(* A decoded value is kept as its kind (dict, list, str, number, bool,     *)
(* NoneType) and its text in compact JSON form: no whitespace between      *)
(* tokens, each key of an object once with the value given last.           *)
(***************************************************************************)
\* json.decoder.WHITESPACE: [ \t\n\r]*
JsonSpace(c) == c \in {" ", "\t", "\n", "\r"}

Digits == {"0", "1", "2", "3", "4", "5", "6", "7", "8", "9"}

HexDigits == Digits \cup {"a", "b", "c", "d", "e", "f", "A", "B", "C", "D", "E", "F"}

\* The characters below U+0020 that occur in the texts of this model.
ControlChars == {"\t", "\n", "\r", "\f"}

\* s[i:i+1] at the 1-based position i: "" beyond the end
At(s, i) == IF 1 <= i /\ i <= Len(s) THEN s[i] ELSE ""

RECURSIVE skip_ws(_, _)
\* _w(s, i).end(): the first position at or after i that holds no whitespace
skip_ws(s, i) == IF JsonSpace(At(s, i)) THEN skip_ws(s, i + 1) ELSE i

\* JSONDecodeError
DecodeError == [ok |-> FALSE, end |-> 0, kind |-> "JSONDecodeError", text |-> <<>>]

\* A value of the given kind that ends right before position `end`.
Decoded(end, kind, text) == [ok |-> TRUE, end |-> end, kind |-> kind, text |-> text]

RECURSIVE scan_digits(_, _)
\* \d+ from position i: the position after the run of digits
scan_digits(s, i) == IF At(s, i) \in Digits THEN scan_digits(s, i + 1) ELSE i

\* NUMBER_RE = (-?(?:0|[1-9]\d*))(\.\d+)?([eE][-+]?\d+)? matched at position i
scan_number(s, i) ==
    LET j == IF At(s, i) = "-" THEN i + 1 ELSE i
        intEnd == IF At(s, j) = "0" THEN j + 1
                  ELSE IF At(s, j) \in Digits THEN scan_digits(s, j)
                  ELSE 0
        fracEnd == IF At(s, intEnd) = "." /\ At(s, intEnd + 1) \in Digits
                   THEN scan_digits(s, intEnd + 1)
                   ELSE intEnd
        expAt == IF At(s, fracEnd) \in {"e", "E"}
                 THEN IF At(s, fracEnd + 1) \in {"+", "-"} THEN fracEnd + 2 ELSE fracEnd + 1
                 ELSE 0
        end == IF expAt > 0 /\ At(s, expAt) \in Digits THEN scan_digits(s, expAt) ELSE fracEnd
    IN  IF intEnd = 0 THEN DecodeError ELSE Decoded(end, "number", SubSeq(s, i, end - 1))

\* s[i:i+len(word)] == word
word_at(s, i, word) ==
    i + Len(word) - 1 <= Len(s) /\ SubSeq(s, i, i + Len(word) - 1) = word

\* The constants of the scanner, in the order it tries them.
JsonWords ==
    << [word |-> <<"n", "u", "l", "l">>, kind |-> "NoneType"],
       [word |-> <<"t", "r", "u", "e">>, kind |-> "bool"],
       [word |-> <<"f", "a", "l", "s", "e">>, kind |-> "bool"],
       [word |-> <<"N", "a", "N">>, kind |-> "number"],
       [word |-> <<"I", "n", "f", "i", "n", "i", "t", "y">>, kind |-> "number"],
       [word |-> <<"-", "I", "n", "f", "i", "n", "i", "t", "y">>, kind |-> "number"] >>

\* null, true, false, a number, NaN, Infinity or -Infinity at position i
scan_plain(s, i) ==
    LET hits == {w \in 1..Len(JsonWords) : word_at(s, i, JsonWords[w].word)}
        w == CHOOSE w \in hits : TRUE
    IN  IF hits # {}
        THEN Decoded(i + Len(JsonWords[w].word), JsonWords[w].kind, JsonWords[w].word)
        ELSE scan_number(s, i)

\* BACKSLASH: the characters that may follow a backslash, \u aside
EscapeChars == {"\"", "\\", "/", "b", "f", "n", "r", "t"}

RECURSIVE scanstring(_, _, _)
\* py_scanstring(s, i, strict=True), i the position after the opening quote:
\* the string ends at the first unescaped quote; a control character, an
\* unknown escape, a \u without four hex digits or the end of the text is an
\* error. The text keeps each escape as written, \/ aside, which is "/".
scanstring(s, i, acc) ==
    LET c == At(s, i)
        e == At(s, i + 1)
    IN  IF c = "" \/ c \in ControlChars THEN DecodeError
        ELSE IF c = "\"" THEN Decoded(i + 1, "str", <<"\"">> \o acc \o <<"\"">>)
        ELSE IF c # "\\" THEN scanstring(s, i + 1, Append(acc, c))
        ELSE IF e = "u"
             THEN IF \A k \in 2..5 : At(s, i + k) \in HexDigits
                  THEN scanstring(s, i + 6, acc \o SubSeq(s, i, i + 5))
                  ELSE DecodeError
        ELSE IF e = "/" THEN scanstring(s, i + 2, Append(acc, "/"))
        ELSE IF e \in EscapeChars THEN scanstring(s, i + 2, acc \o <<c, e>>)
        ELSE DecodeError

\* pairs[key] = value on the list of (key, value) that becomes the dict
put_pair(pairs, key, value) ==
    IF \E p \in 1..Len(pairs) : pairs[p][1] = key
    THEN [p \in 1..Len(pairs) |-> IF pairs[p][1] = key THEN <<key, value>> ELSE pairs[p]]
    ELSE Append(pairs, <<key, value>>)

RECURSIVE join_comma(_)
\* ",".join(parts)
join_comma(parts) ==
    IF parts = <<>> THEN <<>>
    ELSE IF Len(parts) = 1 THEN parts[1]
    ELSE parts[1] \o <<",">> \o join_comma(Tail(parts))

\* The text of a dict with the given (key, value) pairs.
dict_text(pairs) ==
    <<"{">> \o join_comma([p \in 1..Len(pairs) |-> pairs[p][1] \o <<":">> \o pairs[p][2]])
    \o <<"}">>

\* The text of a list with the given items.
list_text(items) == <<"[">> \o join_comma(items) \o <<"]">>

RECURSIVE scan_once(_, _)
RECURSIVE scan_members(_, _, _)
RECURSIVE scan_elements(_, _, _)

\* JSONObject, i the position after "{"
scan_object(s, i) ==
    LET j == skip_ws(s, i)
    IN  IF At(s, j) = "}" THEN Decoded(j + 1, "dict", dict_text(<<>>))
        ELSE IF At(s, j) # "\"" THEN DecodeError
        ELSE scan_members(s, j + 1, <<>>)

\* The loop of JSONObject, i the position after the opening quote of a key
scan_members(s, i, pairs) ==
    LET key == scanstring(s, i, <<>>)
        colon == skip_ws(s, key.end)
        value == scan_once(s, skip_ws(s, colon + 1))
        after == skip_ws(s, value.end)
        all == put_pair(pairs, key.text, value.text)
        next == skip_ws(s, after + 1)
    IN  IF ~key.ok THEN DecodeError
        ELSE IF At(s, colon) # ":" THEN DecodeError
        ELSE IF ~value.ok THEN DecodeError
        ELSE IF At(s, after) = "}" THEN Decoded(after + 1, "dict", dict_text(all))
        ELSE IF At(s, after) # "," THEN DecodeError
        ELSE IF At(s, next) # "\"" THEN DecodeError
        ELSE scan_members(s, next + 1, all)

\* JSONArray, i the position after "["
scan_array(s, i) ==
    LET j == skip_ws(s, i)
    IN  IF At(s, j) = "]" THEN Decoded(j + 1, "list", list_text(<<>>))
        ELSE scan_elements(s, j, <<>>)

\* The loop of JSONArray, i the position of the next item
scan_elements(s, i, items) ==
    LET value == scan_once(s, i)
        after == skip_ws(s, value.end)
        all == Append(items, value.text)
    IN  IF ~value.ok THEN DecodeError
        ELSE IF At(s, after) = "]" THEN Decoded(after + 1, "list", list_text(all))
        ELSE IF At(s, after) # "," THEN DecodeError
        ELSE scan_elements(s, skip_ws(s, after + 1), all)

\* scan_once(s, i): the value that starts at position i
scan_once(s, i) ==
    IF At(s, i) = "\"" THEN scanstring(s, i + 1, <<>>)
    ELSE IF At(s, i) = "{" THEN scan_object(s, i + 1)
    ELSE IF At(s, i) = "[" THEN scan_array(s, i + 1)
    ELSE scan_plain(s, i)

\* json.loads(s): the one value of the text, whitespace around it allowed;
\* anything after it is "Extra data".
json_loads(s) ==
    LET value == scan_once(s, skip_ws(s, 1))
    IN  IF value.ok /\ skip_ws(s, value.end) = Len(s) + 1 THEN value ELSE DecodeError

(***************************************************************************)
(* CardDesignCrew._safe_parse_json                                         *)
(***************************************************************************)
RECURSIVE depth_scan_ignoring_strings(_, _, _, _, _, _, _)
\* A variant that counts the brackets inside string literals too.
depth_scan_ignoring_strings(message, index, opener, closer, depth, in_string, escape) ==
    IF index > Len(message) THEN 0
    ELSE IF message[index] = opener
         THEN depth_scan_ignoring_strings(message, index + 1, opener, closer,
                                          depth + 1, FALSE, FALSE)
    ELSE IF message[index] = closer
         THEN IF depth - 1 = 0 THEN index
              ELSE depth_scan_ignoring_strings(message, index + 1, opener, closer,
                                               depth - 1, FALSE, FALSE)
    ELSE depth_scan_ignoring_strings(message, index + 1, opener, closer,
                                     depth, FALSE, FALSE)

RECURSIVE depth_scan_unescaped(_, _, _, _, _, _, _)
\* A variant in which every quote inside a string literal ends it, a quote
\* after a backslash too.
depth_scan_unescaped(message, index, opener, closer, depth, in_string, escape) ==
    IF index > Len(message) THEN 0
    ELSE IF message[index] = "\""
         THEN depth_scan_unescaped(message, index + 1, opener, closer, depth,
                                   ~in_string, FALSE)
    ELSE IF in_string
         THEN depth_scan_unescaped(message, index + 1, opener, closer, depth, TRUE, FALSE)
    ELSE IF message[index] = opener
         THEN depth_scan_unescaped(message, index + 1, opener, closer, depth + 1,
                                   FALSE, FALSE)
    ELSE IF message[index] = closer
         THEN IF depth - 1 = 0 THEN index
              ELSE depth_scan_unescaped(message, index + 1, opener, closer, depth - 1,
                                        FALSE, FALSE)
    ELSE depth_scan_unescaped(message, index + 1, opener, closer, depth, FALSE, FALSE)

RECURSIVE depth_scan(_, _, _, _, _, _, _)
\* The loop of _extract_balanced_segment from the 1-based position `index`,
\* with the values its locals depth, in_string and escape have there: the
\* position at which depth returns to 0, or 0 when the loop runs off the end.
depth_scan(message, index, opener, closer, depth, in_string, escape) ==
    IF index > Len(message) THEN 0
    ELSE LET char == message[index]
         IN  IF in_string
             THEN IF escape
                  THEN depth_scan(message, index + 1, opener, closer, depth, TRUE, FALSE)
                  ELSE IF char = "\\"
                  THEN depth_scan(message, index + 1, opener, closer, depth, TRUE, TRUE)
                  ELSE IF char = "\""
                  THEN depth_scan(message, index + 1, opener, closer, depth, FALSE, FALSE)
                  ELSE depth_scan(message, index + 1, opener, closer, depth, TRUE, FALSE)
             ELSE IF char = "\""
                  THEN depth_scan(message, index + 1, opener, closer, depth, TRUE, escape)
             ELSE IF char = opener
                  THEN depth_scan(message, index + 1, opener, closer, depth + 1, FALSE, escape)
             ELSE IF char = closer
                  THEN IF depth - 1 = 0 THEN index
                       ELSE depth_scan(message, index + 1, opener, closer,
                                       depth - 1, FALSE, escape)
             ELSE depth_scan(message, index + 1, opener, closer, depth, FALSE, escape)

\* CardDesignCrew._extract_balanced_segment, `start` a 0-based index as in
\* the source: message[start : index + 1], or None
extract_balanced_segment(message, start, opener, closer) ==
    LET index == depth_scan(message, start + 1, opener, closer, 0, FALSE, FALSE)
    IN  IF index = 0 THEN None ELSE SubSeq(message, start + 1, index)

\* payload.find(char, start): the lowest 0-based index at or after `start`
\* that holds the character, or -1
find_char(payload, char, start) ==
    LET at == {i \in (start + 1)..Len(payload) : payload[i] = char}
    IN  IF at = {} THEN -1 ELSE Min(at) - 1

RECURSIVE collect_from_every(_, _, _, _)
\* A variant that appends the balanced segment of every opener.
collect_from_every(payload, start, start_char, end_char) ==
    IF start = -1 THEN <<>>
    ELSE LET segment == extract_balanced_segment(payload, start, start_char, end_char)
         IN  (IF Truthy(segment) THEN <<segment>> ELSE <<>>)
                 \o collect_from_every(payload, find_char(payload, start_char, start + 1),
                                       start_char, end_char)

RECURSIVE collect_from(_, _, _, _)
\* The while loop of collect_segment: what it appends to candidates
collect_from(payload, start, start_char, end_char) ==
    IF start = -1 THEN <<>>
    ELSE LET segment == extract_balanced_segment(payload, start, start_char, end_char)
         IN  IF Truthy(segment) THEN <<segment>>
             ELSE collect_from(payload, find_char(payload, start_char, start + 1),
                               start_char, end_char)

\* collect_segment(start_char, end_char)
collect_segment(payload, start_char, end_char) ==
    collect_from(payload, find_char(payload, start_char, 0), start_char, end_char)

\* CardDesignCrew._iter_json_candidates
iter_json_candidates(payload) ==
    LET candidates == collect_segment(payload, "{", "}") \o collect_segment(payload, "[", "]")
    IN  IF candidates = <<>> THEN <<payload>> ELSE candidates

\* A variant that takes whatever value was decoded.
is_any_value(parsed) == parsed.ok

\* isinstance(parsed, dict)
is_dict(parsed) == parsed.ok /\ parsed.kind = "dict"

RECURSIVE first_dict(_)
\* The for loop of _safe_parse_json: the first candidate that decodes to a
\* dict, candidates that do not decode or decode to something else skipped
first_dict(candidates) ==
    IF candidates = <<>> THEN None
    ELSE IF is_dict(json_loads(Head(candidates))) THEN json_loads(Head(candidates)).text
    ELSE first_dict(Tail(candidates))

\* CardDesignCrew._safe_parse_json: None or the dict, as its text
safe_parse_json(payload) ==
    IF payload = <<>> THEN None
    ELSE IF strip(payload) = <<>> THEN None
    ELSE first_dict(iter_json_candidates(strip(payload)))

(***************************************************************************)
(* _safe_parse_json on its own: the texts it is given                      *)
(*                                                                         *)
(* The backtick of a code fence is written "U+0060".                       *)
(***************************************************************************)
\* "{}"
ObjEmpty ==
    <<"{", "}">>

\* "{\"a\":1}"
ObjFlat ==
    <<"{", "\"", "a", "\"", ":", "1", "}">>

\* "{\"a\" : {\"b\":[1, 2]}}"
ObjNested ==
    <<"{", "\"", "a", "\"", " ", ":", " ", "{", "\"", "b", "\"", ":", "[",
      "1", ",", " ", "2", "]", "}", "}">>

\* "{\"a\":\"}{\"}"
ObjBraceInString ==
    <<"{", "\"", "a", "\"", ":", "\"", "}", "{", "\"", "}">>

\* "{\"a\":\"\\\"}\"}"
ObjEscapedQuote ==
    <<"{", "\"", "a", "\"", ":", "\"", "\\", "\"", "}", "\"", "}">>

\* "{\"a\":1,\"a\":2}"
ObjRepeatedKey ==
    <<"{", "\"", "a", "\"", ":", "1", ",", "\"", "a", "\"", ":", "2", "}">>

\* "[1,2]"
TxtArray ==
    <<"[", "1", ",", "2", "]">>

\* "[{\"a\":1}]"
TxtArrayOfObject ==
    <<"[", "{", "\"", "a", "\"", ":", "1", "}", "]">>

\* "1"
TxtNumber ==
    <<"1">>

\* "\"a\""
TxtString ==
    <<"\"", "a", "\"">>

\* "null"
TxtNull ==
    <<"n", "u", "l", "l">>

\* "{\"a\":1"
TxtUnclosed ==
    <<"{", "\"", "a", "\"", ":", "1">>

\* "{a:1}"
TxtBareKey ==
    <<"{", "a", ":", "1", "}">>

\* "{\"a\":1,}"
TxtTrailingComma ==
    <<"{", "\"", "a", "\"", ":", "1", ",", "}">>

\* "No JSON here"
TxtProse ==
    <<"N", "o", " ", "J", "S", "O", "N", " ", "h", "e", "r", "e">>

\* "Hi: "
LeadProse ==
    <<"H", "i", ":", " ">>

\* "Hi\n```json\n"
LeadProseFence ==
    <<"H", "i", "\n", "U+0060", "U+0060", "U+0060", "j", "s", "o", "n", "\n">>

\* "Use {x}:\n```json\n"
LeadBracesFence ==
    <<"U", "s", "e", " ", "{", "x", "}", ":", "\n", "U+0060", "U+0060",
      "U+0060", "j", "s", "o", "n", "\n">>

\* "a { b\n```\n"
LeadOpenBraceFence ==
    <<"a", " ", "{", " ", "b", "\n", "U+0060", "U+0060", "U+0060", "\n">>

\* "[1] "
LeadArray ==
    <<"[", "1", "]", " ">>

\* "```json\n"
LeadFence ==
    <<"U+0060", "U+0060", "U+0060", "j", "s", "o", "n", "\n">>

\* "\nok."
TrailRemark ==
    <<"\n", "o", "k", ".">>

\* "\n```\nbye"
TrailFenceProse ==
    <<"\n", "U+0060", "U+0060", "U+0060", "\n", "b", "y", "e">>

\* " }"
TrailCloser ==
    <<" ", "}">>

\* " {"
TrailOpener ==
    <<" ", "{">>

\* " https://a ]"
TrailUrl ==
    <<" ", "h", "t", "t", "p", "s", ":", "/", "/", "a", " ", "]">>

\* " [1]"
TrailArray ==
    <<" ", "[", "1", "]">>

\* "{\"b\":2}"
TrailObject ==
    <<"{", "\"", "b", "\"", ":", "2", "}">>

\* "  "
TrailSpace ==
    <<" ", " ">>

\* Well-formed JSON objects, as text.
JsonObjects ==
    {ObjEmpty, ObjFlat, ObjNested, ObjBraceInString, ObjEscapedQuote, ObjRepeatedKey}

\* What the text may hold where an object is expected: an object, another
\* JSON value, a broken object, prose, nothing.
JsonCores ==
    JsonObjects \cup
    {TxtArray, TxtArrayOfObject, TxtNumber, TxtString, TxtNull,
     TxtUnclosed, TxtBareKey, TxtTrailingComma, TxtProse, <<>>}

\* What may come before it: nothing, prose, an opening code fence.
JsonLeads ==
    {<<>>, LeadProse, LeadProseFence, LeadBracesFence,
     LeadOpenBraceFence, LeadArray, LeadFence}

\* What may come after it: nothing, prose, a closing code fence, brackets.
JsonTrails ==
    {<<>>, TrailRemark, TrailFenceProse, TrailCloser, TrailOpener,
     TrailUrl, TrailArray, TrailObject, TrailSpace}

\* The raw outputs of the first round.
JsonPayloads ==
    {lead \o core \o trail : lead \in JsonLeads, core \in JsonCores, trail \in JsonTrails}

\* raw_output in hand, before blueprint = self._safe_parse_json(raw_output)
ParseInit ==
    /\ requirements = CardRequirements
    /\ asked = {}
    /\ active_question = "None"
    /\ greeted = FALSE
    /\ answered = 0
    /\ pc = "safe_parse_json"
    /\ question = "None"
    /\ crew = "None"
    /\ returned = NothingReturned
    /\ merged = None
    /\ merge_addition = <<>>
    /\ raw_output \in JsonPayloads
    /\ blueprint = None
    /\ html_preview = None
    /\ html_generation_prompt = None
    /\ generated_html = None
    /\ generated_html_raw = None
    /\ pexels_images = <<>>
    /\ response = NoResponse
    /\ pexels_call = NoCall

\* blueprint = self._safe_parse_json(raw_output)
SafeParseJson ==
    /\ pc = "safe_parse_json"
    /\ blueprint' = safe_parse_json(raw_output)
    /\ pc' = "parsed"
    /\ UNCHANGED <<requirements, asked, active_question, greeted, answered, question, crew>>
    /\ UNCHANGED <<returned, merge_vars>>
    /\ UNCHANGED <<raw_output, html_preview, html_generation_prompt,
                   generated_html, generated_html_raw, pexels_images, response,
                   pexels_call>>

ParseNext == SafeParseJson

ParseSpec == ParseInit /\ [][ParseNext]_vars

(***************************************************************************)
(* C15                                                                     *)
(***************************************************************************)
\* C15: for a text that is a well-formed JSON object followed by any trailing
\* text (prose, URLs, further braces or brackets), _safe_parse_json returns
\* that leading object as a mapping.
C15_LeadingObject ==
    pc = "parsed" =>
        \A k \in 1..Len(raw_output) :
            LET leading == json_loads(SubSeq(raw_output, 1, k))
            IN  (leading.ok /\ leading.kind = "dict") => blueprint = leading.text

\* The object {"a":"}{"}, whose string holds braces, was recovered from a text
\* that goes on with a closing brace.
C15_Witness ==
    /\ pc = "parsed"
    /\ raw_output = ObjBraceInString \o TrailCloser
    /\ blueprint = ObjBraceInString

(***************************************************************************)
(* C16                                                                     *)
(***************************************************************************)
\* Prose, then the line that opens a code fence.
ProseThenFence == {LeadProseFence, LeadBracesFence, LeadOpenBraceFence}

\* The line that closes the fence, then prose.
FenceThenProse == {TrailFenceProse}

\* C16: for a text in which a well-formed JSON object is wrapped in a code
\* fence, with prose before and after the fence, _safe_parse_json recovers
\* that object, whatever the prose is.
C16_FencedObject ==
    pc = "parsed" =>
        \A lead \in ProseThenFence, object \in JsonObjects, trail \in FenceThenProse :
            raw_output = lead \o object \o trail => blueprint = json_loads(object).text

Fence == <<"U+0060", "U+0060", "U+0060">>

\* The line boundaries of str.splitlines() among the characters of the model.
LineBreaks == {"\n", "\r", "\f"}

RECURSIVE splitlines(_)
\* str.splitlines(): the lines without their line breaks; "\r\n" is one
\* break, and a break at the very end opens no further line.
splitlines(text) ==
    LET breaks == {i \in 1..Len(text) : text[i] \in LineBreaks}
    IN  IF text = <<>> THEN <<>>
        ELSE IF breaks = {} THEN <<text>>
        ELSE LET k == Min(breaks)
                 after == IF text[k] = "\r" /\ k < Len(text) /\ text[k + 1] = "\n"
                          THEN k + 2
                          ELSE k + 1
             IN  <<SubSeq(text, 1, k - 1)>> \o splitlines(SubSeq(text, after, Len(text)))

RECURSIVE join_newline(_)
\* "\n".join(lines)
join_newline(lines) ==
    IF lines = <<>> THEN <<>>
    ELSE IF Len(lines) = 1 THEN lines[1]
    ELSE lines[1] \o <<"\n">> \o join_newline(Tail(lines))

\* lines[0].strip().startswith("```"), lines[-1].strip().startswith("```")
is_fence_line(line) == startswith(strip(line), Fence)

RECURSIVE drop_trailing_fences(_)
\* while lines and lines[-1].strip().startswith("```"): lines = lines[:-1]
drop_trailing_fences(lines) ==
    IF lines # <<>> /\ is_fence_line(lines[Len(lines)])
    THEN drop_trailing_fences(SubSeq(lines, 1, Len(lines) - 1))
    ELSE lines

\* CardDesignCrew._strip_code_fences(text)
strip_code_fences(text) ==
    LET lines == splitlines(text)
        body  == IF is_fence_line(lines[1]) THEN Tail(lines) ELSE lines
    IN  IF lines = <<>> THEN <<>>
        ELSE strip(join_newline(drop_trailing_fences(body)))

\* str.rfind(keyword): the highest 0-based index of keyword in text, or -1
rfind(text, keyword) ==
    LET at == {i \in 1..(Len(text) - Len(keyword) + 1) :
                  SubSeq(text, i, i + Len(keyword) - 1) = keyword}
    IN  IF at = {} THEN -1 ELSE (CHOOSE i \in at : \A j \in at : j <= i) - 1

\* text[first:last] for 0-based first, last >= 0: last is clamped to the
\* length, and an empty range gives "".
slice(text, first, last) ==
    LET stop == IF last > Len(text) THEN Len(text) ELSE last
    IN  IF first >= stop THEN <<>> ELSE SubSeq(text, first + 1, stop)

\* "<!doctype"
TagDoctype ==
    <<"<", "!", "d", "o", "c", "t", "y", "p", "e">>

\* "<html"
TagHtml ==
    <<"<", "h", "t", "m", "l">>

\* "</html>"
TagHtmlEnd ==
    <<"<", "/", "h", "t", "m", "l", ">">>

\* "</html"
TagHtmlEndOpen ==
    <<"<", "/", "h", "t", "m", "l">>

\* start_index taken as 0 when neither start is found
start_index_or_zero(doc_start, html_start) ==
    IF doc_start # -1 /\ html_start # -1 THEN Min({doc_start, html_start})
    ELSE IF doc_start # -1 THEN doc_start
    ELSE IF html_start # -1 THEN html_start
    ELSE 0

\* start_index: the smaller of the two starts, the one that was found, or
\* None (written -1, as the index that str.find returns for "not found")
start_index(doc_start, html_start) ==
    IF doc_start # -1 /\ html_start # -1 THEN Min({doc_start, html_start})
    ELSE IF doc_start # -1 THEN doc_start
    ELSE IF html_start # -1 THEN html_start
    ELSE -1

\* _extract_html_document from `lower = text.lower()` on: the indices are
\* found in the lowered text and applied to text.
document_in(text) ==
    LET lowered   == lower(text)
        start     == start_index(find(lowered, TagDoctype), find(lowered, TagHtml))
        end_index == rfind(lowered, TagHtmlEnd)
    IN  IF start = -1 THEN None
        ELSE IF end_index # -1
             THEN strip(slice(text, start, end_index + Len(TagHtmlEnd)))
        ELSE IF start = 0 THEN text
        ELSE IF contains(slice(lowered, start, Len(lowered)), TagHtmlEndOpen)
             THEN strip(slice(text, start, Len(text)))
        ELSE None

\* CardDesignCrew._extract_html_document(payload)
extract_html_document(payload) ==
    LET text     == strip(payload)
        unfenced == IF startswith(text, Fence) THEN strip_code_fences(text) ELSE text
    IN  IF payload = <<>> \/ text = <<>> \/ unfenced = <<>>
        THEN None
        ELSE document_in(unfenced)

(***************************************************************************)
(* The responses of the second round: prose or fence, document, remark.    *)
(***************************************************************************)
\* "<!DOCTYPE html><html>x</html>"
DocDoctype ==
    <<"<", "!", "D", "O", "C", "T", "Y", "P", "E", " ", "h", "t", "m", "l",
      ">", "<", "h", "t", "m", "l", ">", "x", "<", "/", "h", "t", "m", "l",
      ">">>

\* "<HTML>x</HTML>"
DocUpperCase ==
    <<"<", "H", "T", "M", "L", ">", "x", "<", "/", "H", "T", "M", "L", ">">>

\* "<html>x</html> </html>"
DocTwoClosers ==
    <<"<", "h", "t", "m", "l", ">", "x", "<", "/", "h", "t", "m", "l", ">",
      " ", "<", "/", "h", "t", "m", "l", ">">>

\* "<html>\r\nx</html>"
DocCrLf ==
    <<"<", "h", "t", "m", "l", ">", "\r", "\n", "x", "<", "/", "h", "t", "m",
      "l", ">">>

\* "<html>x"
DocUnclosed ==
    <<"<", "h", "t", "m", "l", ">", "x">>

\* "<html> </htmlx"
DocBrokenCloser ==
    <<"<", "h", "t", "m", "l", ">", " ", "<", "/", "h", "t", "m", "l", "x">>

\* "</html><html>"
DocCloserFirst ==
    <<"<", "/", "h", "t", "m", "l", ">", "<", "h", "t", "m", "l", ">">>

\* "Plain text only"
TxtPlain ==
    <<"P", "l", "a", "i", "n", " ", "t", "e", "x", "t", " ", "o", "n", "l",
      "y">>

\* "blah "
HtmlLeadProse ==
    <<"b", "l", "a", "h", " ">>

\* "U+0130 "
HtmlLeadDotted ==
    <<"U+0130", " ">>

\* "```html\n"
HtmlLeadFence ==
    <<"U+0060", "U+0060", "U+0060", "h", "t", "m", "l", "\n">>

\* "Hi!\n```html\n"
HtmlLeadProseFence ==
    <<"H", "i", "!", "\n", "U+0060", "U+0060", "U+0060", "h", "t", "m", "l",
      "\n">>

\* " blah"
HtmlTrailProse ==
    <<" ", "b", "l", "a", "h">>

\* "\n```"
HtmlTrailFence ==
    <<"\n", "U+0060", "U+0060", "U+0060">>

\* "\n```\nThanks"
HtmlTrailFenceProse ==
    <<"\n", "U+0060", "U+0060", "U+0060", "\n", "T", "h", "a", "n", "k", "s">>

\* "  "
HtmlTrailSpace ==
    <<" ", " ">>

HtmlCores ==
    {<<>>, DocDoctype, DocUpperCase, DocTwoClosers, DocCrLf, DocUnclosed,
     DocBrokenCloser, DocCloserFirst, TxtPlain}

HtmlLeads == {<<>>, HtmlLeadProse, HtmlLeadDotted, HtmlLeadFence, HtmlLeadProseFence}

HtmlTrails == {<<>>, HtmlTrailProse, HtmlTrailFence, HtmlTrailFenceProse, HtmlTrailSpace}

\* The texts handed to _extract_html_document.
HtmlPayloads ==
    {lead \o core \o trail : lead \in HtmlLeads, core \in HtmlCores, trail \in HtmlTrails}

\* raw_output in hand, before html = self._extract_html_document(raw_output)
HtmlInit ==
    /\ requirements = CardRequirements
    /\ asked = {}
    /\ active_question = "None"
    /\ greeted = FALSE
    /\ answered = 0
    /\ pc = "extract_html_document"
    /\ question = "None"
    /\ crew = "None"
    /\ returned = NothingReturned
    /\ merged = None
    /\ merge_addition = <<>>
    /\ raw_output = None
    /\ blueprint = None
    /\ html_preview = None
    /\ html_generation_prompt = None
    /\ generated_html = None
    /\ generated_html_raw \in HtmlPayloads
    /\ pexels_images = <<>>
    /\ response = NoResponse
    /\ pexels_call = NoCall

\* html = self._extract_html_document(raw_output)
ExtractHtmlDocument ==
    /\ pc = "extract_html_document"
    /\ generated_html' = extract_html_document(generated_html_raw)
    /\ pc' = "extracted"
    /\ UNCHANGED <<requirements, asked, active_question, greeted, answered, question, crew>>
    /\ UNCHANGED <<returned, merge_vars>>
    /\ UNCHANGED <<raw_output, blueprint, html_preview, html_generation_prompt,
                   generated_html_raw, pexels_images, response,
                   pexels_call>>

HtmlNext == ExtractHtmlDocument

HtmlSpec == HtmlInit /\ [][HtmlNext]_vars

(***************************************************************************)
(* C18                                                                     *)
(***************************************************************************)
\* keyword stands at 1-based position i of text, letter case ignored
MatchesAt(text, i, keyword) ==
    /\ i + Len(keyword) - 1 <= Len(text)
    /\ \A k \in 1..Len(keyword) : SameLetter(text[i + k - 1], keyword[k])

\* The positions of text where a doctype declaration or an <html tag opens.
DocumentStarts(text) ==
    {i \in 1..Len(text) : MatchesAt(text, i, TagDoctype) \/ MatchesAt(text, i, TagHtml)}

\* The positions of text where a closing </html> tag opens.
DocumentEnds(text) == {i \in 1..Len(text) : MatchesAt(text, i, TagHtmlEnd)}

Max(S) == CHOOSE x \in S : \A y \in S : y <= x

\* text has a doctype or <html, and a closing </html> tag after it
HasDocument(text) ==
    /\ DocumentStarts(text) # {}
    /\ \E e \in DocumentEnds(text) : e > Min(DocumentStarts(text))

\* The substring of text from its earliest doctype or <html through the end
\* of its last closing </html> tag, trimmed.
DocumentOf(text) ==
    strip(SubSeq(text, Min(DocumentStarts(text)),
                 Max(DocumentEnds(text)) + Len(TagHtmlEnd) - 1))

\* C18: for a text that holds a doctype declaration or an opening <html tag
\* and a closing </html> tag after it, with or without prose around it and
\* with or without a leading code fence and a trailing fence line,
\* _extract_html_document returns exactly the substring of the text from the
\* earliest doctype or <html through the end of the closing </html> tag,
\* trimmed (letter case is ignored in the matching).
C18_ExactDocument ==
    (pc = "extracted" /\ HasDocument(generated_html_raw))
        => generated_html = DocumentOf(generated_html_raw)

(***************************************************************************)
(* C19                                                                     *)
(***************************************************************************)
\* text is only a code fence: it opens with a fence, and each of its lines is
\* a fence line or blank
FenceOnly(text) ==
    /\ startswith(strip(text), Fence)
    /\ \A i \in 1..Len(splitlines(strip(text))) :
           \/ is_fence_line(splitlines(strip(text))[i])
           \/ strip(splitlines(strip(text))[i]) = <<>>

\* C19: _extract_html_document returns none for empty or whitespace-only
\* text, for text that is only a code fence, and for every text that holds
\* neither a doctype declaration nor an opening <html tag.
C19_NoDocument ==
    pc = "extracted" =>
        /\ strip(generated_html_raw) = <<>> => generated_html = None
        /\ FenceOnly(generated_html_raw) => generated_html = None
        /\ DocumentStarts(generated_html_raw) = {} => generated_html = None

\* A fence with a language tag and nothing inside it gives none.
C19_Witness ==
    /\ pc = "extracted"
    /\ generated_html_raw = HtmlLeadFence \o HtmlTrailFence
    /\ FenceOnly(generated_html_raw)
    /\ generated_html = None

(***************************************************************************)
(* Python values read out of a blueprint                                   *)
(*                                                                         *)
(* A value of the blueprint is its compact JSON text, as json_loads keeps  *)
(* it; the operators below read it as the Python object it stands for.     *)
(***************************************************************************)
\* type(value).__name__
kind_of(value) ==
    LET c == Head(value)
    IN  IF c = "{" THEN "dict"
        ELSE IF c = "[" THEN "list"
        ELSE IF c = "\"" THEN "str"
        ELSE IF c = "n" THEN "NoneType"
        ELSE IF c \in {"t", "f"} THEN "bool"
        ELSE "number"

\* None
JsonNull == <<"n", "u", "l", "l">>

\* {}
EmptyDict == <<"{", "}">>

RECURSIVE escapes_before(_, _)
\* The number of backslashes in a row that end right before position i.
escapes_before(value, i) ==
    IF At(value, i - 1) = "\\" THEN 1 + escapes_before(value, i - 1) ELSE 0

\* The position of the quote that closes the str whose opening quote is at
\* position i: the first quote after i with an even number of backslashes
\* before it.
closing_quote(value, i) ==
    Min({j \in (i + 1)..Len(value) : value[j] = "\"" /\ escapes_before(value, j) % 2 = 0})

RECURSIVE value_end(_, _, _)
\* The position after the value that starts at position i of a compact
\* text: after its closing quote, brace or bracket, or at the comma or the
\* closer that ends a null, a boolean or a number. `depth` counts the braces
\* and brackets open since i.
value_end(value, i, depth) ==
    LET c == At(value, i)
    IN  IF c = "" THEN i
        ELSE IF c = "\""
             THEN IF depth = 0 THEN closing_quote(value, i) + 1
                  ELSE value_end(value, closing_quote(value, i) + 1, depth)
        ELSE IF c \in {"{", "["} THEN value_end(value, i + 1, depth + 1)
        ELSE IF c \in {"}", "]"}
             THEN IF depth = 0 THEN i
                  ELSE IF depth = 1 THEN i + 1
                  ELSE value_end(value, i + 1, depth - 1)
        ELSE IF c = "," /\ depth = 0 THEN i
        ELSE value_end(value, i + 1, depth)

RECURSIVE members_of(_, _)
\* The (key, value) pairs of a dict from position i on, i the position of a
\* key's opening quote or of the closing brace.
members_of(value, i) ==
    LET colon == value_end(value, i, 0)
        after == value_end(value, colon + 1, 0)
    IN  IF At(value, i) # "\"" THEN <<>>
        ELSE <<[key |-> SubSeq(value, i, colon - 1),
                value |-> SubSeq(value, colon + 1, after - 1)]>>
             \o members_of(value, after + 1)

\* dict.items()
items_of(value) == members_of(value, 2)

RECURSIVE elements_of(_, _)
\* The items of a list from position i on, i the position of an item or of
\* the closing bracket.
elements_of(value, i) ==
    LET after == value_end(value, i, 0)
    IN  IF At(value, i) \in {"]", ""} THEN <<>>
        ELSE <<SubSeq(value, i, after - 1)>> \o elements_of(value, after + 1)

\* list(value) of a list
list_of(value) == elements_of(value, 2)

\* mapping.get(key) for a key without escapes: the value, or None
dict_get(mapping, key) ==
    LET items == items_of(mapping)
        hits  == {p \in 1..Len(items) : items[p].key = <<"\"">> \o key \o <<"\"">>}
    IN  IF hits = {} THEN JsonNull ELSE items[CHOOSE p \in hits : TRUE].value

\* bool(value): None, False, zero, "", [] and {} are falsy
truthy(value) ==
    LET kind == kind_of(value)
        mantissa == SelectSeq(value, LAMBDA c : c \in Digits \cup {"e", "E", "N", "I"})
        exponent == {i \in 1..Len(mantissa) : mantissa[i] \in {"e", "E"}}
        digits == IF exponent = {} THEN mantissa ELSE SubSeq(mantissa, 1, Min(exponent) - 1)
    IN  IF kind = "NoneType" THEN FALSE
        ELSE IF kind = "bool" THEN Head(value) = "t"
        ELSE IF kind = "number" THEN \E i \in 1..Len(digits) : digits[i] # "0"
        ELSE Len(value) > 2

\* `value or {}`
or_empty_dict(value) == IF truthy(value) THEN value ELSE EmptyDict

\* isinstance(value, str)
is_str(value) == kind_of(value) = "str"

RECURSIVE unescape(_)
\* The characters of a str from the inside of its JSON text: \", \\, \n, \t,
\* \r and \f stand for one character each (the escapes that occur in the
\* texts of this model).
unescape(chars) ==
    LET e == At(chars, 2)
        c == IF e = "n" THEN "\n"
             ELSE IF e = "t" THEN "\t"
             ELSE IF e = "r" THEN "\r"
             ELSE IF e = "f" THEN "\f"
             ELSE e
    IN  IF chars = <<>> THEN <<>>
        ELSE IF Head(chars) = "\\" /\ e \in {"\"", "\\", "n", "t", "r", "f"}
             THEN <<c>> \o unescape(SubSeq(chars, 3, Len(chars)))
        ELSE <<Head(chars)>> \o unescape(Tail(chars))

\* The characters of a str value.
str_value(value) == unescape(SubSeq(value, 2, Len(value) - 1))

RECURSIVE concat(_)
\* "".join(parts)
concat(parts) == IF parts = <<>> THEN <<>> ELSE Head(parts) \o concat(Tail(parts))

RECURSIVE join_with(_, _)
\* separator.join(parts)
join_with(separator, parts) ==
    IF parts = <<>> THEN <<>>
    ELSE IF Len(parts) = 1 THEN parts[1]
    ELSE parts[1] \o separator \o join_with(separator, Tail(parts))

\* repr(text) of a str: in single quotes, or in double quotes when the text
\* holds a single quote and no double quote; the backslash, the quote and
\* the control characters are escaped.
repr_of_str(text) ==
    LET quote == IF InSeq(text, "'") /\ ~InSeq(text, "\"") THEN "\"" ELSE "'"
        shown(c) == IF c = "\\" THEN <<"\\", "\\">>
                    ELSE IF c = quote THEN <<"\\", c>>
                    ELSE IF c = "\n" THEN <<"\\", "n">>
                    ELSE IF c = "\t" THEN <<"\\", "t">>
                    ELSE IF c = "\r" THEN <<"\\", "r">>
                    ELSE IF c = "\f" THEN <<"\\", "x", "0", "c">>
                    ELSE <<c>>
    IN  <<quote>> \o concat([i \in 1..Len(text) |-> shown(text[i])]) \o <<quote>>

\* str(value) of an int, of nan and of the infinities (the numbers of this
\* model are written as integers)
str_of_number(value) ==
    IF value = <<"N", "a", "N">> THEN <<"n", "a", "n">>
    ELSE IF value = <<"I", "n", "f", "i", "n", "i", "t", "y">> THEN <<"i", "n", "f">>
    ELSE IF value = <<"-", "I", "n", "f", "i", "n", "i", "t", "y">> THEN <<"-", "i", "n", "f">>
    ELSE IF value = <<"-", "0">> THEN <<"0">>
    ELSE value

RECURSIVE py_repr(_)
\* [repr(item) for item in elems]
repr_each(elems) == [i \in 1..Len(elems) |-> py_repr(elems[i])]

\* [repr(key) + ": " + repr(value) for key, value in items]
repr_pairs(items) ==
    [i \in 1..Len(items) |-> py_repr(items[i].key) \o <<":", " ">> \o py_repr(items[i].value)]

\* repr(value)
py_repr(value) ==
    LET kind == kind_of(value)
    IN  IF kind = "str" THEN repr_of_str(str_value(value))
        ELSE IF kind = "NoneType" THEN <<"N", "o", "n", "e">>
        ELSE IF kind = "bool"
             THEN IF Head(value) = "t" THEN <<"T", "r", "u", "e">>
                  ELSE <<"F", "a", "l", "s", "e">>
        ELSE IF kind = "number" THEN str_of_number(value)
        ELSE IF kind = "list"
             THEN <<"[">> \o join_with(<<",", " ">>, repr_each(list_of(value))) \o <<"]">>
        ELSE <<"{">> \o join_with(<<",", " ">>, repr_pairs(items_of(value))) \o <<"}">>

\* str(value): the text itself for a str, repr(value) otherwise
py_str(value) == IF is_str(value) THEN str_value(value) ELSE py_repr(value)

(***************************************************************************)
(* pexels.search_backgrounds                                               *)
(***************************************************************************)
\* The subclasses of requests.RequestException that requests.get and
\* response.raise_for_status() raise: no connection, no answer within the
\* timeout, a 4xx or 5xx status.
TransportFailures == {"ConnectionError", "Timeout", "HTTPError"}

\* a Pexels API key
ApiKey ==
    <<"k", "e", "y", "-", "1">>

\* entry["url"]
PhotoPage ==
    <<"h", "t", "t", "p", "s", ":", "/", "/", "p", "/", "1">>

\* entry["src"]["large2x"]
PhotoLarge ==
    <<"h", "t", "t", "p", "s", ":", "/", "/", "p", "/", "1", ".", "j", "p",
      "g">>

\* entry["src"]["original"]
PhotoOriginal ==
    <<"h", "t", "t", "p", "s", ":", "/", "/", "p", "/", "1", ".", "p", "n",
      "g">>

\* entry["photographer"]
PhotoAuthor ==
    <<"A", "n", "n">>

\* Entries of payload["photos"]: with both sizes in src, with the original
\* only, and with an empty src.
EntryLarge ==
    [id |-> 1, url |-> PhotoPage, photographer |-> PhotoAuthor, photographer_url |-> <<>>,
     large2x |-> PhotoLarge, original |-> PhotoOriginal, avg_color |-> None]

EntryOriginal == [EntryLarge EXCEPT !.id = 2, !.large2x = None]

EntryBare == [EntryLarge EXCEPT !.id = 3, !.large2x = <<>>, !.original = None]

\* PexelsPhoto(...) of one entry: image_url is
\* src.get("large2x") or src.get("original") or entry.get("url")
PexelsPhoto(entry) ==
    [id |-> entry.id, url |-> entry.url, photographer |-> entry.photographer,
     photographer_url |-> entry.photographer_url,
     image_url |-> IF Truthy(entry.large2x) THEN entry.large2x
                   ELSE IF Truthy(entry.original) THEN entry.original
                   ELSE entry.url,
     avg_color |-> entry.avg_color]

\* What the request comes to: a transport failure, a body that is not JSON
\* (response.json() raises, outside the try), or a JSON object whose "photos"
\* are the entries (no entries also when the key is absent).
RequestFailure(kind) == [kind |-> kind, entries |-> <<>>]

RequestBody(entries) == [kind |-> "json", entries |-> entries]

RequestNotJson == [kind |-> "not json", entries |-> <<>>]

\* search_backgrounds with the request left unguarded
search_backgrounds_unguarded(api_key, query, outcome) ==
    IF ~Truthy(api_key)
    THEN [raised |-> FALSE, requested |-> FALSE, photos |-> <<>>]
    ELSE IF outcome.kind \in TransportFailures \cup {"not json"}
    THEN [raised |-> TRUE, requested |-> TRUE, photos |-> <<>>]
    ELSE [raised |-> FALSE, requested |-> TRUE,
          photos |-> [i \in 1..Len(outcome.entries) |-> PexelsPhoto(outcome.entries[i])]]

\* search_backgrounds(api_key, query), given what the request comes to when
\* it is made: the photos, whether a request was made, and whether an
\* exception leaves the function.
search_backgrounds(api_key, query, outcome) ==
    IF ~Truthy(api_key)
    THEN [raised |-> FALSE, requested |-> FALSE, photos |-> <<>>]
    ELSE IF outcome.kind \in TransportFailures
    THEN [raised |-> FALSE, requested |-> TRUE, photos |-> <<>>]
    ELSE IF outcome.kind = "not json"
    THEN [raised |-> TRUE, requested |-> TRUE, photos |-> <<>>]
    ELSE [raised |-> FALSE, requested |-> TRUE,
          photos |-> [i \in 1..Len(outcome.entries) |-> PexelsPhoto(outcome.entries[i])]]

\* The call as the session sees it afterwards.
CallOf(api_key, query, outcome) ==
    LET result == search_backgrounds(api_key, query, outcome)
    IN  [called |-> TRUE, api_key |-> api_key, query |-> query,
         requested |-> result.requested,
         outcome |-> IF result.requested THEN outcome.kind ELSE "None",
         raised |-> result.raised]

\* settings.pexels_api_key: unset, empty, or a key
ApiKeys == {None, <<>>, ApiKey}

\* What the request of one call comes to.
RequestOutcomes ==
    {RequestFailure(kind) : kind \in TransportFailures}
        \cup {RequestNotJson, RequestBody(<<>>), RequestBody(<<EntryLarge>>),
              RequestBody(<<EntryOriginal, EntryBare>>)}

(***************************************************************************)
(* CardDesignCrew.run and _generate_final_html                             *)
(***************************************************************************)
\* What a call of a collaborator (crew.kickoff, self._llm.call) comes back
\* with: a text, None, or an exception.
TextOutcome(text) == [kind |-> "str", text |-> text]

NoneOutcome == [kind |-> "NoneType", text |-> <<>>]

ExceptionOutcome == [kind |-> "Exception", text |-> <<>>]

\* CardDesignCrew._ensure_textual_payload(payload), for a payload that is
\* None or a str
ensure_textual_payload(payload) ==
    IF payload.kind = "NoneType" THEN <<>> ELSE payload.text

\* _generate_final_html with the LLM's exception left uncaught
generate_final_html_uncaught(prompt, outcome) ==
    LET raw_text == ensure_textual_payload(outcome)
    IN  IF ~Truthy(prompt)
        THEN [raised |-> FALSE, html |-> None, raw |-> None, called |-> FALSE]
        ELSE IF outcome.kind = "Exception"
        THEN [raised |-> TRUE, html |-> None, raw |-> None, called |-> TRUE]
        ELSE IF strip(raw_text) = <<>>
        THEN [raised |-> FALSE, html |-> None, raw |-> raw_text, called |-> TRUE]
        ELSE [raised |-> FALSE, html |-> extract_html_document(raw_text),
              raw |-> raw_text, called |-> TRUE]

\* CardDesignCrew._generate_final_html(prompt), given what self._llm.call
\* does when called: the pair (html, raw), whether the LLM was called, and
\* whether an exception leaves the method (`except Exception` catches what
\* the call raises).
generate_final_html(prompt, outcome) ==
    LET raw_text == ensure_textual_payload(outcome)
    IN  IF ~Truthy(prompt)
        THEN [raised |-> FALSE, html |-> None, raw |-> None, called |-> FALSE]
        ELSE IF outcome.kind = "Exception"
        THEN [raised |-> FALSE, html |-> None, raw |-> None, called |-> TRUE]
        ELSE IF strip(raw_text) = <<>>
        THEN [raised |-> FALSE, html |-> None, raw |-> raw_text, called |-> TRUE]
        ELSE [raised |-> FALSE, html |-> extract_html_document(raw_text),
              raw |-> raw_text, called |-> TRUE]

(***************************************************************************)
(* html_renderer and prompts: the helpers the two modules share            *)
(***************************************************************************)
\* 'str' object has no attribute 'get' (or 'list', 'int', 'bool'): the
\* exception that leaves a function which calls .get on such a value.
AttributeError == <<"AttributeError">>

\* html.escape(s, quote=True)
escape(s) ==
    concat([i \in 1..Len(s) |->
               IF s[i] = "&" THEN <<"&", "a", "m", "p", ";">>
               ELSE IF s[i] = "<" THEN <<"&", "l", "t", ";">>
               ELSE IF s[i] = ">" THEN <<"&", "g", "t", ";">>
               ELSE IF s[i] = "\"" THEN <<"&", "q", "u", "o", "t", ";">>
               ELSE IF s[i] = "'" THEN <<"&", "#", "x", "2", "7", ";">>
               ELSE <<s[i]>>])

\* _text(value)
to_text(value) == IF kind_of(value) = "NoneType" THEN <<>> ELSE strip(py_str(value))

RECURSIVE split_on(_, _)
\* s.split(separator) for a separator of one character
split_on(s, separator) ==
    LET at == {i \in 1..Len(s) : s[i] = separator}
    IN  IF at = {} THEN <<s>>
        ELSE <<SubSeq(s, 1, Min(at) - 1)>> \o split_on(SubSeq(s, Min(at) + 1, Len(s)), separator)

\* [part.strip() for part in parts if part.strip()]
stripped_parts(parts) ==
    SelectSeq([i \in 1..Len(parts) |-> strip(parts[i])], LAMBDA part : part # <<>>)

\* [str(item) for item in elems]
str_each(elems) == [i \in 1..Len(elems) |-> py_str(elems[i])]

\* _as_list from `text = _text(value)` on: the lines of a text that holds a
\* line break, else the segments of a text that holds a comma, else the text
\* itself unless it is empty
text_parts(flat) ==
    IF InSeq(flat, "\n") THEN stripped_parts(splitlines(flat))
    ELSE IF InSeq(flat, ",") THEN stripped_parts(split_on(flat, ","))
    ELSE IF flat # <<>> THEN <<flat>>
    ELSE <<>>

\* _as_list(value)
as_list(value) ==
    IF kind_of(value) = "NoneType" THEN <<>>
    ELSE IF kind_of(value) = "list" THEN stripped_parts(str_each(list_of(value)))
    ELSE text_parts(to_text(value))

\* _normalise_url with the whitespace inside the URL left in
normalise_url_outer_only(url) ==
    IF strip(url) = <<>> THEN None ELSE strip(url)

\* _normalise_url(value): None for a blank value; "".join(stripped.split())
\* drops every whitespace character
normalise_url(url) ==
    IF strip(url) = <<>> THEN None ELSE SelectSeq(strip(url), LAMBDA c : ~IsSpace(c))

\* _append(url) of _collect_image_urls: a url that is not None, not "" and
\* not yet seen is added at the end
append_url(urls, url) ==
    IF Truthy(url) /\ ~InSeq(urls, url) THEN Append(urls, url) ELSE urls

RECURSIVE append_urls(_, _)
\* _append(url) for each url of more, in order
append_urls(urls, more) ==
    IF more = <<>> THEN urls ELSE append_urls(append_url(urls, Head(more)), Tail(more))

\* ("image_url", "url", "src")
UrlKeys == <<<<"i", "m", "a", "g", "e", "_", "u", "r", "l">>, <<"u", "r", "l">>, <<"s", "r", "c">>>>

\* The values of a mapping under the three keys that are str, in key order.
url_values(candidate) ==
    SelectSeq([k \in 1..Len(UrlKeys) |-> dict_get(candidate, UrlKeys[k])], is_str)

\* [_normalise_url(value) for value in values]
normalise_each(values) == [i \in 1..Len(values) |-> normalise_url(str_value(values[i]))]

RECURSIVE collect_image_urls(_)
RECURSIVE collect_from_items(_, _)
\* _collect_image_urls(candidate)
collect_image_urls(candidate) ==
    LET kind == kind_of(candidate)
    IN  IF kind = "NoneType" THEN <<>>
        ELSE IF kind = "str" THEN append_url(<<>>, normalise_url(str_value(candidate)))
        ELSE IF kind = "dict" THEN append_urls(<<>>, normalise_each(url_values(candidate)))
        ELSE IF kind = "list" THEN collect_from_items(list_of(candidate), <<>>)
        ELSE append_url(<<>>, normalise_url(py_str(candidate)))

\* for item in candidate: for url in _collect_image_urls(item): _append(url)
collect_from_items(elems, urls) ==
    IF elems = <<>> THEN urls
    ELSE collect_from_items(Tail(elems), append_urls(urls, collect_image_urls(Head(elems))))

(***************************************************************************)
(* prompts.build_card_html_prompt                                          *)
(***************************************************************************)
KeyCardSummary == <<"c", "a", "r", "d", "_", "s", "u", "m", "m", "a", "r", "y">>
KeyMessaging == <<"m", "e", "s", "s", "a", "g", "i", "n", "g">>
KeyHeadline == <<"h", "e", "a", "d", "l", "i", "n", "e">>
KeyBody == <<"b", "o", "d", "y">>
KeyClosing == <<"c", "l", "o", "s", "i", "n", "g">>
KeyVisualDirection == <<"v", "i", "s", "u", "a", "l", "_", "d", "i", "r", "e", "c", "t",
                        "i", "o", "n">>
KeyPalette == <<"p", "a", "l", "e", "t", "t", "e">>
KeyTypography == <<"t", "y", "p", "o", "g", "r", "a", "p", "h", "y">>
KeyLayout == <<"l", "a", "y", "o", "u", "t">>
KeyBackgroundImagePlan == <<"b", "a", "c", "k", "g", "r", "o", "u", "n", "d", "_", "i",
                            "m", "a", "g", "e", "_", "p", "l", "a", "n">>
KeyImageAssets == <<"i", "m", "a", "g", "e", "_", "a", "s", "s", "e", "t", "s">>
KeyMustUse == <<"m", "u", "s", "t", "_", "u", "s", "e">>
KeyPexelsOptions == <<"p", "e", "x", "e", "l", "s", "_", "o", "p", "t", "i", "o", "n", "s">>
KeyProductionNotes == <<"p", "r", "o", "d", "u", "c", "t", "i", "o", "n", "_", "n", "o",
                        "t", "e", "s">>
KeyNextQuestions == <<"n", "e", "x", "t", "_", "q", "u", "e", "s", "t", "i", "o", "n", "s">>

\* `blueprint.get(key) or {}` of the three sections, in the order in which
\* the functions read them.
sections_of(mapping) ==
    [k \in 1..3 |-> or_empty_dict(dict_get(mapping,
                                           <<KeyMessaging, KeyVisualDirection,
                                             KeyImageAssets>>[k]))]

\* Some section is neither falsy nor a mapping: .get on it raises.
get_raises(mapping) == \E k \in 1..3 : kind_of(sections_of(mapping)[k]) # "dict"

\* [prefix + item for item in items]
prefixed(prefix, elems) == [i \in 1..Len(elems) |-> prefix \o elems[i]]

\* lines.extend(["", heading]); lines.extend(f"- {item}" for item in items),
\* when there are items
section_lines(heading, elems) ==
    IF elems = <<>> THEN <<>> ELSE <<<<>>, heading>> \o prefixed(<<"-", " ">>, elems)

\* [label + value] if value else []
labelled(label, s) == IF s = <<>> THEN <<>> ELSE <<label \o s>>

\* [heading] + ["  - " + item for item in items] if items else []
listed(heading, elems) ==
    IF elems = <<>> THEN <<>> ELSE <<heading>> \o prefixed(<<" ", " ", "-", " ">>, elems)

\* The first three lines of every prompt.
PromptOpening ==
    <<<<"Y", "o", "u", " ", "a", "r", "e", " ", "a", "n", " ", "e", "x", "p", "e",
        "r", "t", " ", "H", "T", "M", "L", "/", "C", "S", "S", " ", "d", "e", "s",
        "i", "g", "n", "e", "r", " ", "c", "r", "e", "a", "t", "i", "n", "g", " ",
        "a", " ", "s", "i", "n", "g", "l", "e", " ", "i", "n", "v", "i", "t", "a",
        "t", "i", "o", "n", " ", "o", "r", " ", "g", "r", "e", "e", "t", "i", "n",
        "g", " ", "c", "a", "r", "d", ".">>,
      <<"P", "r", "o", "d", "u", "c", "e", " ", "a", " ", "c", "o", "m", "p", "l",
        "e", "t", "e", " ", "<", "h", "t", "m", "l", ">", " ", "d", "o", "c", "u",
        "m", "e", "n", "t", " ", "w", "i", "t", "h", " ", "i", "n", "l", "i", "n",
        "e", " ", "<", "s", "t", "y", "l", "e", ">", " ", "s", "o", " ", "t", "h",
        "e", " ", "d", "e", "s", "i", "g", "n", " ", "r", "e", "n", "d", "e", "r",
        "s", " ", "s", "t", "a", "n", "d", "a", "l", "o", "n", "e", ".">>,
      <<"D", "o", " ", "n", "o", "t", " ", "i", "n", "c", "l", "u", "d", "e", " ",
        "a", "n", "y", " ", "J", "a", "v", "a", "S", "c", "r", "i", "p", "t", ".">>>>

\* The last five lines of every prompt.
PromptRequirements ==
    <<<<>>,
      <<"A", "c", "c", "e", "s", "s", "i", "b", "i", "l", "i", "t", "y", " ", "a",
        "n", "d", " ", "f", "o", "r", "m", "a", "t", "t", "i", "n", "g", " ", "r",
        "e", "q", "u", "i", "r", "e", "m", "e", "n", "t", "s", ":">>,
      <<"-", " ", "M", "a", "k", "e", " ", "t", "e", "x", "t", " ", "r", "e", "a",
        "d", "a", "b", "l", "e", " ", "w", "i", "t", "h", " ", "s", "u", "f", "f",
        "i", "c", "i", "e", "n", "t", " ", "c", "o", "n", "t", "r", "a", "s", "t",
        ".">>,
      <<"-", " ", "U", "s", "e", " ", "s", "e", "m", "a", "n", "t", "i", "c", " ",
        "H", "T", "M", "L", " ", "s", "t", "r", "u", "c", "t", "u", "r", "e", " ",
        "w", "i", "t", "h", " ", "c", "l", "e", "a", "r", "l", "y", " ", "s", "e",
        "p", "a", "r", "a", "t", "e", "d", " ", "s", "e", "c", "t", "i", "o", "n",
        "s", ".">>,
      <<"-", " ", "K", "e", "e", "p", " ", "t", "h", "e", " ", "l", "a", "y", "o",
        "u", "t", " ", "r", "e", "s", "p", "o", "n", "s", "i", "v", "e", " ", "f",
        "o", "r", " ", "b", "o", "t", "h", " ", "d", "e", "s", "k", "t", "o", "p",
        " ", "a", "n", "d", " ", "m", "o", "b", "i", "l", "e", " ", "w", "i", "d",
        "t", "h", "s", ".">>>>

\* content_lines, for the messaging section
content_lines(messaging) ==
    labelled(<<"H", "e", "a", "d", "l", "i", "n", "e", ":", " ">>, to_text(dict_get(messaging, KeyHeadline)))
        \o labelled(<<"B", "o", "d", "y", ":", " ">>, to_text(dict_get(messaging, KeyBody)))
        \o labelled(<<"C", "l", "o", "s", "i", "n", "g", ":", " ">>, to_text(dict_get(messaging, KeyClosing)))

\* direction_lines, for the visual_direction section
direction_lines(visual_direction) ==
    listed(<<"P", "a", "l", "e", "t", "t", "e", ":">>, as_list(dict_get(visual_direction, KeyPalette)))
        \o labelled(<<"T", "y", "p", "o", "g", "r", "a", "p", "h", "y", ":", " ">>,
                    to_text(dict_get(visual_direction, KeyTypography)))
        \o labelled(<<"L", "a", "y", "o", "u", "t", " ", "g", "u", "i", "d", "a",
                      "n", "c", "e", ":", " ">>,
                    to_text(dict_get(visual_direction, KeyLayout)))
        \o labelled(<<"B", "a", "c", "k", "g", "r", "o", "u", "n", "d", " ", "p",
                      "l", "a", "n", ":", " ">>,
                    to_text(dict_get(visual_direction, KeyBackgroundImagePlan)))

\* imagery_lines, for the image_assets section
imagery_lines(image_assets) ==
    listed(<<"E", "m", "b", "e", "d", " ", "t", "h", "e", "s", "e", " ", "u", "s",
             "e", "r", "-", "p", "r", "o", "v", "i", "d", "e", "d", " ", "i", "m",
             "a", "g", "e", "s", " ", "a", "s", " ", "h", "e", "r", "o", "/", "b",
             "a", "c", "k", "g", "r", "o", "u", "n", "d", " ", "a", "s", "s", "e",
             "t", "s", ":">>,
           collect_image_urls(dict_get(image_assets, KeyMustUse)))
        \o listed(<<"O", "p", "t", "i", "o", "n", "a", "l", "l", "y", " ", "r",
                    "e", "f", "e", "r", "e", "n", "c", "e", " ", "t", "h", "e",
                    "s", "e", " ", "P", "e", "x", "e", "l", "s", " ", "i", "n",
                    "s", "p", "i", "r", "a", "t", "i", "o", "n", "s", " ", "f",
                    "o", "r", " ", "m", "o", "o", "d", ":">>,
                  collect_image_urls(dict_get(image_assets, KeyPexelsOptions)))

\* lines, for the blueprint and its three sections
prompt_lines(mapping, messaging, visual_direction, image_assets) ==
    PromptOpening
        \o section_lines(<<"D", "e", "s", "i", "g", "n", " ", "i", "n", "t", "e",
                           "n", "t", ":">>, labelled(<<>>, to_text(dict_get(mapping, KeyCardSummary))))
        \o section_lines(<<"C", "a", "r", "d", " ", "c", "o", "p", "y", ":">>,
                         content_lines(messaging))
        \o section_lines(<<"V", "i", "s", "u", "a", "l", " ", "d", "i", "r", "e",
                           "c", "t", "i", "o", "n", ":">>,
                         direction_lines(visual_direction))
        \o section_lines(<<"I", "m", "a", "g", "e", "r", "y", " ", "c", "u", "e",
                           "s", ":">>,
                         imagery_lines(image_assets))
        \o section_lines(<<"P", "r", "o", "d", "u", "c", "t", "i", "o", "n", " ",
                           "n", "o", "t", "e", "s", " ", "(", "h", "o", "n", "o",
                           "u", "r", " ", "i", "n", " ", "l", "a", "y", "o", "u",
                           "t", " ", "d", "e", "c", "i", "s", "i", "o", "n", "s",
                           ")", ":">>,
                         as_list(dict_get(mapping, KeyProductionNotes)))
        \o section_lines(<<"O", "p", "e", "n", " ", "q", "u", "e", "s", "t", "i",
                           "o", "n", "s", " ", "f", "r", "o", "m", " ", "t", "h",
                           "e", " ", "b", "r", "i", "e", "f", " ", "(", "a", "v",
                           "o", "i", "d", " ", "g", "u", "e", "s", "s", "i", "n",
                           "g", " ", "d", "e", "t", "a", "i", "l", "s", ")", ":">>,
                         as_list(dict_get(mapping, KeyNextQuestions)))
        \o PromptRequirements

\* build_card_html_prompt(blueprint): the prompt, or AttributeError when a
\* section that is neither falsy nor a mapping is asked for a key
build_card_html_prompt(mapping) ==
    IF get_raises(mapping) THEN AttributeError
    ELSE strip(join_newline(prompt_lines(mapping, sections_of(mapping)[1],
                                         sections_of(mapping)[2], sections_of(mapping)[3])))

(***************************************************************************)
(* html_renderer.blueprint_to_html                                         *)
(***************************************************************************)
\* The first url of the sequence that is neither None nor "", or None
first_url(urls) ==
    LET hits == {i \in 1..Len(urls) : Truthy(urls[i])}
    IN  IF hits = {} THEN None ELSE urls[Min(hits)]

RECURSIVE first_image_url(_)
\* [_first_image_url(item) for item in elems]
first_image_url_each(elems) == [i \in 1..Len(elems) |-> first_image_url(elems[i])]

\* _first_image_url(candidate)
first_image_url(candidate) ==
    LET kind == kind_of(candidate)
    IN  IF kind = "str" THEN normalise_url(str_value(candidate))
        ELSE IF kind = "dict" THEN first_url(normalise_each(url_values(candidate)))
        ELSE IF kind = "list" THEN first_url(first_image_url_each(list_of(candidate)))
        ELSE None

\* _select_background_image(image_assets)
select_background_image(image_assets) ==
    first_url(<<first_image_url(dict_get(image_assets, KeyMustUse)),
                first_image_url(dict_get(image_assets, KeyPexelsOptions))>>)

\* _HEX_COLOR_PATTERN.match(entry): # and three or six hexadecimal digits
is_hex_color(entry) ==
    /\ Len(entry) \in {4, 7}
    /\ entry[1] = "#"
    /\ \A i \in 2..Len(entry) : entry[i] \in HexDigits

\* (entry, color_code) of _palette_items
palette_item(entry) ==
    [label |-> entry, color |-> IF is_hex_color(entry) THEN entry ELSE None]

\* [(entry, color_code) for entry in entries]
palette_item_each(entries) == [i \in 1..Len(entries) |-> palette_item(entries[i])]

\* _palette_items(value)
palette_items(value) == palette_item_each(as_list(value))

\* _render_palette_item(item)
render_palette_item(item) ==
    <<"<", "l", "i", ">", "<", "s", "p", "a", "n", " ", "c", "l", "a", "s", "s", "=", "\"",
      "p", "a", "l", "e", "t", "t", "e", "_", "_", "c", "h", "i", "p", "\"">>
        \o (IF Truthy(item.color)
            THEN <<" ", "s", "t", "y", "l", "e", "=", "\"", "b", "a", "c", "k", "g", "r", "o", "u",
          "n", "d", ":">> \o item.color \o <<";", "\"">>
            ELSE <<>>)
        \o <<">", "<", "/", "s", "p", "a", "n", ">", "<", "s", "p", "a", "n", ">">> \o escape(item.label) \o <<"<", "/", "s", "p", "a", "n", ">", "<", "/", "l", "i", ">">>

\* _render_image_item(url, title)
render_image_item(url, title) ==
    <<"<", "a", " ", "c", "l", "a", "s", "s", "=", "\"", "i", "m", "a", "g", "e", "s", "_",
      "_", "i", "t", "e", "m", "\"", " ", "h", "r", "e", "f", "=", "\"">>
        \o escape(url)
        \o <<"\"", " ", "t", "a", "r", "g", "e", "t", "=", "\"", "_", "b", "l", "a", "n",
             "k", "\"", " ", "r", "e", "l", "=", "\"", "n", "o", "o", "p", "e", "n", "e",
             "r", " ", "n", "o", "r", "e", "f", "e", "r", "r", "e", "r", "\"", ">">>
        \o <<"<", "i", "m", "g", " ", "c", "l", "a", "s", "s", "=", "\"", "i", "m", "a",
             "g", "e", "s", "_", "_", "t", "h", "u", "m", "b", "\"", " ", "s", "r", "c",
             "=", "\"">>
        \o escape(url)
        \o <<"\"", " ", "a", "l", "t", "=", "\"">> \o escape(title \o <<" ", "p", "r", "e", "v", "i", "e", "w">>)
        \o <<"\"", " ", "l", "o", "a", "d", "i", "n", "g", "=", "\"", "l", "a", "z", "y",
             "\"", " ", "/", ">", "<", "/", "a", ">">>

\* _render_image_group(title, urls, empty_message)
render_image_group(title, urls, empty_message) ==
    <<"<", "s", "e", "c", "t", "i", "o", "n", " ", "c", "l", "a", "s", "s", "=", "\"",
          "i", "m", "a", "g", "e", "s", "_", "_", "g", "r", "o", "u", "p", "\"", ">", "<",
          "h", "4", ">">> \o escape(title) \o <<"<", "/", "h", "4", ">">>
        \o (IF urls = <<>>
            THEN <<"<", "p", " ", "c", "l", "a", "s", "s", "=", "\"", "i", "m", "a", "g", "e", "s",
          "_", "_", "p", "l", "a", "c", "e", "h", "o", "l", "d", "e", "r", "\"", ">">> \o escape(empty_message) \o <<"<", "/", "p", ">">>
            ELSE <<"<", "d", "i", "v", " ", "c", "l", "a", "s", "s", "=", "\"", "i", "m",
                   "a", "g", "e", "s", "_", "_", "g", "r", "i", "d", "\"", ">">>
                     \o concat([i \in 1..Len(urls) |-> render_image_item(urls[i], title)])
                     \o <<"<", "/", "d", "i", "v", ">">>)
        \o <<"<", "/", "s", "e", "c", "t", "i", "o", "n", ">">>

\* _render_image_sections(must_use, pexels)
render_image_sections(must_use, pexels) ==
    render_image_group(<<"U", "s", "e", "r", " ", "p", "r", "o", "v", "i", "d", "e", "d",
                         " ", "i", "m", "a", "g", "e", "s">>, must_use,
                       <<"N", "o", " ", "u", "s", "e", "r", " ", "p", "r", "o", "v", "i",
                         "d", "e", "d", " ", "i", "m", "a", "g", "e", "s", ".">>)
        \o render_image_group(<<"P", "e", "x", "e", "l", "s", " ", "i", "n", "s", "p", "i",
                                "r", "a", "t", "i", "o", "n", "s">>, pexels,
                              <<"N", "o", " ", "P", "e", "x", "e", "l", "s", " ", "i", "n",
                                "s", "p", "i", "r", "a", "t", "i", "o", "n", "s", ".">>)

\* "<li>" + escape(item) + "</li>" for each item, joined
list_items(elems) ==
    concat([i \in 1..Len(elems) |-> <<"<", "l", "i", ">">> \o escape(elems[i]) \o <<"<", "/", "l", "i", ">">>])

\* first or second: the first value when it is not empty
or_else(first, second) == IF first # <<>> THEN first ELSE second

\* "<li><strong>" + label + "</strong> " + escape(value) + "</li>" if value
meta_section(label, s) ==
    IF s = <<>> THEN <<>>
    ELSE <<"<", "l", "i", ">", "<", "s", "t", "r", "o", "n", "g", ">">> \o label \o <<"<", "/", "s", "t", "r", "o", "n", "g", ">", " ">> \o escape(s) \o <<"<", "/", "l", "i", ">">>

\* opening + escape(value) + closing if value else ""
block(opening, s, closing) ==
    IF s = <<>> THEN <<>> ELSE opening \o escape(s) \o closing

\* opening + inner + closing if inner else ""
block_around(opening, inner, closing) ==
    IF inner = <<>> THEN <<>> ELSE opening \o inner \o closing

\* background_image.replace("\"", "%22").replace("'", "%27")
safe_url_of(url) ==
    concat([i \in 1..Len(url) |->
               IF url[i] = "\"" THEN <<"%", "2", "2">>
               ELSE IF url[i] = "'" THEN <<"%", "2", "7">>
               ELSE <<url[i]>>])

\* the headline when messaging.headline and card_summary are empty
DefaultHeadline ==
    <<"Y", "o", "u", "r", " ", "C", "a", "r", "d", " ", "H", "e", "a", "d", "l", "i", "n",
      "e">>

\* palette_markup, for the palette items and the palette as text
palette_markup(chips, palette_text) ==
    or_else(concat([i \in 1..Len(chips) |-> render_palette_item(chips[i])]),
            <<"<", "l", "i", ">">>
                \o escape(or_else(palette_text, <<"N", "o", "t", " ", "s", "p", "e", "c", "i", "f", "i", "e", "d">>))
                \o <<"<", "/", "l", "i", ">">>)

\* production_markup and questions_markup: the items, or the placeholder
list_markup(elems, placeholder) == or_else(list_items(elems), placeholder)

\* meta_block, for the three values of the meta section
meta_block(typography, layout, background_plan) ==
    block_around(<<"<", "u", "l", " ", "c", "l", "a", "s", "s", "=", "\"", "m", "e", "t", "a",
                   "\"", ">">>,
                 meta_section(<<"T", "y", "p", "o", "g", "r", "a", "p", "h", "y", ":">>,
                              typography)
                     \o meta_section(<<"L", "a", "y", "o", "u", "t", ":">>, layout)
                     \o meta_section(<<"B", "a", "c", "k", "g", "r", "o", "u", "n", "d", " ",
                                       "P", "l", "a", "n", ":">>, background_plan),
                 <<"<", "/", "u", "l", ">">>)

\* overlay_opacity (twice in the template), text_color and background_style
background_values(background_image) ==
    IF Truthy(background_image)
    THEN <<"1", "1", "#", "f", "9", "f", "a", "f", "b">>
             \o <<" ", "s", "t", "y", "l", "e", "=", "\"", "b", "a", "c", "k", "g", "r", "o",
                  "u", "n", "d", "-", "i", "m", "a", "g", "e", ":", " ", "u", "r", "l", "(",
                  "'">>
             \o safe_url_of(background_image) \o <<"'", ")", ";", "\"">>
    ELSE <<"0", "0", "#", "1", "f", "2", "9", "3", "3">>

\* The values substituted into the template, in its order, for the card
\* summary and the three sections of the blueprint.
template_values(mapping, card_summary, messaging, visual_direction, image_assets) ==
    background_values(select_background_image(image_assets))
        \o block(<<"<", "d", "i", "v", " ", "c", "l", "a", "s", "s", "=", "\"", "c", "a",
                   "r", "d", "_", "_", "s", "u", "m", "m", "a", "r", "y", "\"", ">">>,
                 card_summary, <<"<", "/", "d", "i", "v", ">">>)
        \o escape(or_else(to_text(dict_get(messaging, KeyHeadline)),
                          or_else(card_summary, DefaultHeadline)))
        \o block(<<"<", "p", " ", "c", "l", "a", "s", "s", "=", "\"", "c", "a",
                   "r", "d", "_", "_", "b", "o", "d", "y", "\"", ">">>,
                 to_text(dict_get(messaging, KeyBody)), <<"<", "/", "p", ">">>)
        \o block(<<"<", "p", " ", "c", "l", "a", "s", "s", "=", "\"", "c", "a",
                   "r", "d", "_", "_", "c", "l", "o", "s", "i", "n", "g", "\"", ">">>,
                 to_text(dict_get(messaging, KeyClosing)), <<"<", "/", "p", ">">>)
        \o palette_markup(palette_items(dict_get(visual_direction, KeyPalette)),
                          to_text(dict_get(visual_direction, KeyPalette)))
        \o meta_block(to_text(dict_get(visual_direction, KeyTypography)),
                      to_text(dict_get(visual_direction, KeyLayout)),
                      to_text(dict_get(visual_direction, KeyBackgroundImagePlan)))
        \o render_image_sections(collect_image_urls(dict_get(image_assets, KeyMustUse)),
                                 collect_image_urls(dict_get(image_assets, KeyPexelsOptions)))
        \o list_markup(as_list(dict_get(mapping, KeyProductionNotes)),
                       <<"<", "l", "i", ">", "N", "o", " ", "p", "r", "o", "d", "u", "c", "t", "i", "o", "n", " ", "n", "o", "t", "e", "s", " ", "p", "r", "o", "v", "i", "d", "e", "d", ".", "<", "/", "l", "i", ">">>)
        \o list_markup(as_list(dict_get(mapping, KeyNextQuestions)),
                       <<"<", "l", "i", ">", "N", "o", " ", "o", "u", "t", "s", "t", "a", "n", "d", "i", "n", "g", " ", "q", "u", "e", "s", "t", "i", "o", "n", "s", ".", "<", "/", "l", "i", ">">>)

\* blueprint_to_html(blueprint): the document, or AttributeError when a
\* section that is neither falsy nor a mapping is asked for a key. The
\* document is a fixed template with values substituted into it; the model
\* keeps the substituted values, in the order of the template, and leaves the
\* template's own text out.
blueprint_to_html(mapping) ==
    IF get_raises(mapping) THEN AttributeError
    ELSE template_values(mapping, to_text(dict_get(mapping, KeyCardSummary)),
                         sections_of(mapping)[1], sections_of(mapping)[2],
                         sections_of(mapping)[3])

\* isinstance(blueprint, dict): _safe_parse_json returns None or a dict
isinstance_dict(value) == value # None

\* CardDesignCrew.gather_inspirations(): the photos kept from an earlier
\* call, or else what search_backgrounds finds
gather_inspirations(kept, found) == IF kept # <<>> THEN kept ELSE found

(***************************************************************************)
(* One call of run, and _generate_final_html called on its own.            *)
(***************************************************************************)
\* "Please render"
TxtPleaseRender ==
    <<"P", "l", "e", "a", "s", "e", " ", "r", "e", "n", "d", "e", "r">>

\* {"messaging":"hi"}: a blueprint whose messaging section is a plain string
ObjTextSection ==
    <<"{", "\"", "m", "e", "s", "s", "a", "g", "i", "n", "g", "\"", ":",
      "\"", "h", "i", "\"", "}">>

\* The texts of the first round: objects with keys a and b only, bare, in a
\* fence or in prose, and texts from which no object is recovered.
RunTexts ==
    {ObjEmpty, ObjFlat, ObjNested \o TrailRemark,
     LeadProseFence \o ObjFlat \o TrailFenceProse,
     LeadProse \o ObjRepeatedKey,
     LeadBracesFence \o ObjFlat \o TrailFenceProse,
     TxtArray, TxtProse, ObjTextSection, <<>>}

\* What crew.kickoff() comes back with.
KickoffOutcomes == {TextOutcome(text) : text \in RunTexts} \cup {NoneOutcome, ExceptionOutcome}

\* The texts of the second round.
LlmTexts ==
    {<<>>, HtmlTrailSpace, TxtPlain, DocUnclosed,
     HtmlLeadFence \o DocDoctype \o HtmlTrailFence,
     HtmlLeadProse \o DocDoctype \o HtmlTrailProse,
     HtmlLeadProse \o DocUnclosed,
     HtmlLeadProseFence \o DocCrLf \o HtmlTrailFenceProse,
     DocTwoClosers,
     HtmlLeadDotted \o DocUpperCase}

\* What self._llm.call(prompt) comes back with.
LlmOutcomes == {TextOutcome(text) : text \in LlmTexts} \cup {NoneOutcome, ExceptionOutcome}

\* The prompts _generate_final_html is called with on its own.
Prompts == {<<>>, TxtPleaseRender}

\* A crew has been constructed; run has not been called.
RunInit ==
    /\ requirements = CardRequirements
    /\ asked = {}
    /\ active_question = "None"
    /\ greeted = FALSE
    /\ answered = 0
    /\ pc = "run"
    /\ question = "None"
    /\ crew = "None"
    /\ OutsideIdle

\* run() from `raw_output = self._ensure_textual_payload(result)` to
\* `html_prompt = build_card_html_prompt(blueprint)`: what it stores for the
\* text of the kickoff's result and the mapping parsed from it.
KickoffResult(text, parsed, preview, prompt) ==
    IF AttributeError \in {preview, prompt}
    THEN /\ pc' = "raised"
         /\ UNCHANGED <<raw_output, blueprint, html_preview, html_generation_prompt>>
    ELSE /\ raw_output' = text
         /\ blueprint' = parsed
         /\ html_preview' = preview
         /\ html_generation_prompt' = prompt
         /\ pc' = IF Truthy(prompt) THEN "generate_final_html" ELSE "returned"

\* blueprint_to_html(blueprint) if isinstance(blueprint, dict) else None, and
\* build_card_html_prompt(blueprint) likewise
KickoffParsed(text, parsed) ==
    KickoffResult(text, parsed,
                  IF isinstance_dict(parsed) THEN blueprint_to_html(parsed) ELSE None,
                  IF isinstance_dict(parsed) THEN build_card_html_prompt(parsed) ELSE None)

\* run() from gather_inspirations() on, for the query and what the search
\* finds
KickoffSearched(api_key, search, outcome, query, found) ==
    /\ pexels_call' = IF pexels_images = <<>> THEN CallOf(api_key, query, search)
                      ELSE pexels_call
    /\ IF pexels_images = <<>> /\ found.raised
       THEN /\ pc' = "raised"
            /\ UNCHANGED <<pexels_images, raw_output, blueprint, html_preview,
                           html_generation_prompt>>
       ELSE /\ pexels_images' = gather_inspirations(pexels_images, found.photos)
            /\ IF outcome.kind = "Exception"
               THEN /\ pc' = "raised"
                    /\ UNCHANGED <<raw_output, blueprint, html_preview,
                                   html_generation_prompt>>
               ELSE KickoffParsed(ensure_textual_payload(outcome),
                                  safe_parse_json(ensure_textual_payload(outcome)))

\* run() up to the HTML round: the inspirations (searched for unless photos
\* are kept from an earlier call), the kickoff, the parse of its output, the
\* preview and the prompt. An exception of the search or of the kickoff
\* leaves run; without a prompt run returns at once.
Kickoff(api_key, search, outcome) ==
    /\ pc = "run"
    /\ KickoffSearched(api_key, search, outcome, build_pexels_query(requirements),
                       search_backgrounds(api_key, build_pexels_query(requirements), search))
    /\ UNCHANGED <<generated_html, generated_html_raw, response>>
    /\ UNCHANGED <<requirements, asked, active_question, greeted, answered, question, crew,
                   returned, merge_vars>>

\* run() from `if html_prompt:` on: the HTML round and the return.
RunGenerateFinalHtml(outcome) ==
    LET result == generate_final_html(html_generation_prompt, outcome)
    IN  /\ pc = "generate_final_html"
        /\ response' = IF result.called THEN outcome ELSE response
        /\ IF result.raised
           THEN /\ pc' = "raised"
                /\ UNCHANGED <<generated_html, generated_html_raw>>
           ELSE /\ generated_html' = result.html
                /\ generated_html_raw' = result.raw
                /\ pc' = "returned"
        /\ UNCHANGED <<raw_output, blueprint, html_preview, html_generation_prompt,
                       pexels_images, pexels_call>>
        /\ UNCHANGED <<requirements, asked, active_question, greeted, answered, question, crew,
                       returned, merge_vars>>

\* _generate_final_html(prompt) called on its own, as its tests call it.
GenerateFinalHtml(prompt, outcome) ==
    LET result == generate_final_html(prompt, outcome)
    IN  /\ pc = "run"
        /\ html_generation_prompt' = prompt
        /\ response' = IF result.called THEN outcome ELSE response
        /\ IF result.raised
           THEN /\ pc' = "raised"
                /\ UNCHANGED <<generated_html, generated_html_raw>>
           ELSE /\ generated_html' = result.html
                /\ generated_html_raw' = result.raw
                /\ pc' = "generated"
        /\ UNCHANGED <<raw_output, blueprint, html_preview, pexels_images, pexels_call>>
        /\ UNCHANGED <<requirements, asked, active_question, greeted, answered, question, crew,
                       returned, merge_vars>>

RunNext ==
    \/ \E api_key \in ApiKeys, search \in RequestOutcomes, outcome \in KickoffOutcomes :
           Kickoff(api_key, search, outcome)
    \/ \E outcome \in LlmOutcomes : RunGenerateFinalHtml(outcome)
    \/ \E prompt \in Prompts, outcome \in LlmOutcomes : GenerateFinalHtml(prompt, outcome)

RunSpec == RunInit /\ [][RunNext]_vars

(***************************************************************************)
(* C20                                                                     *)
(***************************************************************************)
\* _generate_final_html has returned, on its own or inside run.
C20_Generated ==
    \/ pc = "generated"
    \/ pc = "returned" /\ Truthy(html_generation_prompt)

\* The pair returned for each kind of call.
C20_State ==
    C20_Generated =>
        /\ ~Truthy(html_generation_prompt)
               => generated_html = None /\ generated_html_raw = None /\ response = NoResponse
        /\ (Truthy(html_generation_prompt) /\ response.kind = "Exception")
               => generated_html = None /\ generated_html_raw = None
        /\ (Truthy(html_generation_prompt) /\ response.kind # "Exception")
               => /\ generated_html_raw = ensure_textual_payload(response)
                  /\ generated_html =
                         IF strip(generated_html_raw) = <<>>
                         THEN None
                         ELSE extract_html_document(generated_html_raw)

\* The HTML round of run ends in the return, with the results of the first
\* round as they were.
C20_Step ==
    pc = "generate_final_html" =>
        /\ pc' = "returned"
        /\ UNCHANGED <<raw_output, blueprint, html_preview, html_generation_prompt>>

\* C20: _generate_final_html returns (none, none) when the prompt is empty or
\* the LLM call raises, (none, raw) when the response is blank, and otherwise
\* (the extracted document or none, raw); it never raises, so run still
\* returns raw_output, blueprint, html_preview and html_generation_prompt when
\* the HTML round fails.
C20_HtmlRoundFailure == [](C20_State) /\ [][C20_Step]_vars

\* run has returned after an HTML round in which the LLM raised: blueprint,
\* preview and prompt are there, the generated document and its raw text are
\* none.
C20_Witness ==
    /\ pc = "returned"
    /\ response = ExceptionOutcome
    /\ blueprint = ObjFlat
    /\ html_preview # None
    /\ Truthy(html_generation_prompt)
    /\ generated_html = None
    /\ generated_html_raw = None

(***************************************************************************)
(* C21                                                                     *)
(***************************************************************************)
\* C21: an error raised by the generation collaborator during run, in the
\* blueprint round (crew.kickoff) as in the HTML round (self._llm.call), ends
\* in a returned result with a none outcome (blueprint none, document none):
\* no exception leaves run.
C21_ErrorsDegrade ==
    /\ pc = "raised" => pexels_call.raised
    /\ (pc = "returned" /\ response = ExceptionOutcome) => generated_html = None

(***************************************************************************)
(* An interview during which search_backgrounds is called                  *)
(***************************************************************************)
\* search_backgrounds(api_key, self.requirements.build_pexels_query(), ...),
\* as gather_inspirations calls it; the photos are kept in
\* self._pexels_images. An exception leaves the caller.
SearchBackgrounds(api_key, outcome) ==
    LET query  == build_pexels_query(requirements)
        result == search_backgrounds(api_key, query, outcome)
    IN  /\ pc = "api"
        /\ pexels_call' = CallOf(api_key, query, outcome)
        /\ pexels_images' = IF result.raised THEN pexels_images ELSE result.photos
        /\ pc' = IF result.raised THEN "raised" ELSE pc
        /\ UNCHANGED <<requirements, asked, active_question, greeted, answered, question, crew>>
        /\ UNCHANGED <<returned, merge_vars>>
        /\ UNCHANGED <<raw_output, blueprint, html_preview, html_generation_prompt,
                       generated_html, generated_html_raw, response>>

SearchNext ==
    \/ NextQuestion
    \/ \E raw \in ReadInputs : ReadAnswer(raw)
    \/ \E api_key \in ApiKeys, outcome \in RequestOutcomes : SearchBackgrounds(api_key, outcome)

SearchSpec == Init /\ [][SearchNext]_vars

(***************************************************************************)
(* C22                                                                     *)
(***************************************************************************)
\* After a call without an API key no request was made; after such a call
\* and after a call whose request failed in transport, no exception has left
\* the function and the photo list is empty.
C22_State ==
    pexels_call.called =>
        /\ ~Truthy(pexels_call.api_key)
               => ~pexels_call.requested /\ ~pexels_call.raised /\ pexels_images = <<>>
        /\ (Truthy(pexels_call.api_key) /\ pexels_call.outcome \in TransportFailures)
               => pexels_call.requested /\ ~pexels_call.raised /\ pexels_images = <<>>

\* A call leaves the interview record and the question state as they were.
C22_Step ==
    pexels_call' # pexels_call
        => UNCHANGED <<requirements, asked, active_question, greeted, answered>>

\* C22: search_backgrounds returns an empty list, without raising and without
\* touching the interview record, when the API key is missing (no request is
\* made) and on every transport failure of the request (connection error,
\* timeout, non-success HTTP status).
C22_EmptyOnFailure == [](C22_State) /\ [][C22_Step]_vars

\* With an occasion on record, a call with a key whose request timed out
\* has come back with the empty list, and the interview goes on.
C22_Witness ==
    /\ Truthy(requirements["occasion"])
    /\ pexels_call.called
    /\ pexels_call.api_key = ApiKey
    /\ pexels_call.query = requirements["occasion"]
    /\ pexels_call.outcome = "Timeout"
    /\ pexels_images = <<>>
    /\ pc = "api"

(***************************************************************************)
(* The two renderers applied to blueprints of every shape.                 *)
(***************************************************************************)
\* The value of a key that the blueprint does not have.
Absent == <<>>

\* "key":value, the member of an object
member(key, value) == <<"\"">> \o key \o <<"\"", ":">> \o value

\* The object with the given keys and values, keys with an Absent value
\* left out.
object_of(keys, values) ==
    LET present == SelectSeq([i \in 1..Len(keys) |-> i], LAMBDA i : values[i] # Absent)
    IN  <<"{">>
            \o join_with(<<",">>, [n \in 1..Len(present) |->
                                      member(keys[present[n]], values[present[n]])])
            \o <<"}">>

\* messaging: absent, null, a plain string, a list, and two mappings whose
\* sub-keys are themselves null, strings, lists and mappings.
MessagingValues ==
    {Absent, JsonNull,
     <<"\"", "h", "i", "\"">>,
     <<"[", "\"", "h", "i", "\"", "]">>,
     <<"{", "\"", "h", "e", "a", "d", "l", "i", "n", "e", "\"", ":", "\"", "H", "i", " ",
       "<", "y", "o", "u", ">", "\"", ",", "\"", "b", "o", "d", "y", "\"", ":", "[", "\"",
       "a", "\"", ",", "\"", "b", "\"", "]", ",", "\"", "c", "l", "o", "s", "i", "n", "g",
       "\"", ":", "{", "\"", "b", "y", "\"", ":", "\"", "u", "s", "\"", "}", "}">>,
     <<"{", "\"", "h", "e", "a", "d", "l", "i", "n", "e", "\"", ":", "[", "\"", "H", "i",
       "\"", "]", ",", "\"", "b", "o", "d", "y", "\"", ":", "n", "u", "l", "l", ",", "\"",
       "c", "l", "o", "s", "i", "n", "g", "\"", ":", "\"", " ", "x", " ", "&", " ", "y",
       " ", "\"", "}">>}

\* visual_direction, in the same shapes.
VisualDirectionValues ==
    {Absent, JsonNull,
     <<"\"", "b", "o", "l", "d", "\"">>,
     <<"[", "\"", "b", "o", "l", "d", "\"", "]">>,
     <<"{", "\"", "p", "a", "l", "e", "t", "t", "e", "\"", ":", "\"", "#", "f", "f", "f",
       ",", " ", "r", "e", "d", "\"", ",", "\"", "t", "y", "p", "o", "g", "r", "a", "p",
       "h", "y", "\"", ":", "n", "u", "l", "l", ",", "\"", "l", "a", "y", "o", "u", "t",
       "\"", ":", "[", "\"", "g", "r", "i", "d", "\"", "]", ",", "\"", "b", "a", "c", "k",
       "g", "r", "o", "u", "n", "d", "_", "i", "m", "a", "g", "e", "_", "p", "l", "a", "n",
       "\"", ":", "{", "\"", "a", "\"", ":", "\"", "b", "\"", "}", "}">>,
     <<"{", "\"", "p", "a", "l", "e", "t", "t", "e", "\"", ":", "[", "\"", "#", "A", "1",
       "b", "2", "C", "3", "\"", ",", "\"", "s", "k", "y", "\"", "]", ",", "\"", "t", "y",
       "p", "o", "g", "r", "a", "p", "h", "y", "\"", ":", "\"", "s", "e", "r", "i", "f",
       "\"", ",", "\"", "l", "a", "y", "o", "u", "t", "\"", ":", "{", "\"", "a", "\"", ":",
       "1", "}", ",", "\"", "b", "a", "c", "k", "g", "r", "o", "u", "n", "d", "_", "i",
       "m", "a", "g", "e", "_", "p", "l", "a", "n", "\"", ":", "\"", "d", "a", "w", "n",
       "\"", "}">>}

\* image_assets, in the same shapes; the URLs carry whitespace, repeat, and
\* hold characters that HTML escapes.
ImageAssetsValues ==
    {Absent, JsonNull,
     <<"\"", "h", "t", "t", "p", ":", "/", "/", "a", "\"">>,
     <<"[", "\"", "h", "t", "t", "p", ":", "/", "/", "a", "\"", "]">>,
     <<"{", "\"", "m", "u", "s", "t", "_", "u", "s", "e", "\"", ":", "[", "\"", " ", "h",
       "t", "t", "p", ":", "/", "/", "a", " ", "b", "\"", ",", "{", "\"", "u", "r", "l",
       "\"", ":", "\"", "h", "t", "t", "p", ":", "/", "/", "c", "?", "x", "=", "1", "&",
       "y", "=", "2", "\"", ",", "\"", "s", "r", "c", "\"", ":", "\"", "h", "t", "t", "p",
       ":", "/", "/", "a", "b", "\"", "}", ",", "n", "u", "l", "l", "]", ",", "\"", "p",
       "e", "x", "e", "l", "s", "_", "o", "p", "t", "i", "o", "n", "s", "\"", ":", "\"",
       "h", "t", "t", "p", ":", "/", "/", "p", "\\", "n", "/", "q", " ", "\"", "}">>,
     <<"{", "\"", "m", "u", "s", "t", "_", "u", "s", "e", "\"", ":", "{", "\"", "i", "m",
       "a", "g", "e", "_", "u", "r", "l", "\"", ":", "7", ",", "\"", "s", "r", "c", "\"",
       ":", "\"", " ", "\"", "}", ",", "\"", "p", "e", "x", "e", "l", "s", "_", "o", "p",
       "t", "i", "o", "n", "s", "\"", ":", "[", "[", "\"", "h", "t", "t", "p", ":", "/",
       "/", "p", "'", "\"", "]", ",", "\"", "h", "t", "t", "p", ":", "/", "/", "p", "'",
       " ", "\"", ",", "{", "\"", "a", "\"", ":", "\"", "b", "\"", "}", "]", "}">>}

\* card_summary, production_notes and next_questions: each of them absent,
\* null, a plain string, a list and a mapping, in turn.
PlainValues ==
    {<<Absent, JsonNull, <<"\"", "o", "n", "e", ",", " ", "t", "w", "o", "\"">>>>,
     <<JsonNull, <<"\"", "g", "l", "o", "s", "s", "y", "\"">>, <<"[", "\"", "w", "h", "e", "n", "?", "\"", ",", "\"", "w", "h", "e", "r", "e",
          "?", "\"", "]">>>>,
     <<<<"\"", "A", " ", "c", "a", "r", "d", "\"">>, <<"[", "\"", "f", "o", "i", "l", "\"", ",", "\"", " ", "\"", ",", "3", "]">>, <<"{", "\"", "q", "\"", ":", "\"", "w", "h", "o", "?", "\"", "}">>>>,
     <<<<"[", "\"", "A", "\"", ",", "\"", "c", "a", "r", "d", "\"", "]">>, <<"{", "\"", "p", "a", "p", "e", "r", "\"", ":", "\"", "m", "a", "t", "t", "e",
          "\"", "}">>, Absent>>,
     <<<<"{", "\"", "t", "o", "n", "e", "\"", ":", "\"", "w", "a", "r", "m", "\"", "}">>, Absent, JsonNull>>}

\* The blueprints handed to the renderers.
RenderBlueprints ==
    {object_of(<<KeyCardSummary, KeyMessaging, KeyVisualDirection, KeyImageAssets,
                 KeyProductionNotes, KeyNextQuestions>>,
               <<plain[1], m, v, a, plain[2], plain[3]>>) :
         m \in MessagingValues, v \in VisualDirectionValues, a \in ImageAssetsValues,
         plain \in PlainValues}

RenderInit ==
    /\ requirements = CardRequirements
    /\ asked = {}
    /\ active_question = "None"
    /\ greeted = FALSE
    /\ answered = 0
    /\ pc = "render"
    /\ question = "None"
    /\ crew = "None"
    /\ returned = NothingReturned
    /\ merged = None
    /\ merge_addition = <<>>
    /\ raw_output = None
    /\ blueprint \in RenderBlueprints
    /\ html_preview = None
    /\ html_generation_prompt = None
    /\ generated_html = None
    /\ generated_html_raw = None
    /\ pexels_images = <<>>
    /\ response = NoResponse
    /\ pexels_call = NoCall

\* html_preview = blueprint_to_html(blueprint)
BlueprintToHtml ==
    /\ pc = "render"
    /\ html_preview = None
    /\ html_preview' = blueprint_to_html(blueprint)
    /\ UNCHANGED <<pc, blueprint, raw_output, html_generation_prompt, generated_html,
                   generated_html_raw, pexels_images, response, pexels_call>>
    /\ UNCHANGED <<requirements, asked, active_question, greeted, answered, question, crew,
                   returned, merge_vars>>

\* html_prompt = build_card_html_prompt(blueprint)
BuildCardHtmlPrompt ==
    /\ pc = "render"
    /\ html_generation_prompt = None
    /\ html_generation_prompt' = build_card_html_prompt(blueprint)
    /\ UNCHANGED <<pc, blueprint, raw_output, html_preview, generated_html,
                   generated_html_raw, pexels_images, response, pexels_call>>
    /\ UNCHANGED <<requirements, asked, active_question, greeted, answered, question, crew,
                   returned, merge_vars>>

RenderNext == BlueprintToHtml \/ BuildCardHtmlPrompt

RenderSpec == RenderInit /\ [][RenderNext]_vars

\* C23: for every blueprint in which each expected key is absent, null, a
\* plain string, a list or a mapping, blueprint_to_html returns a document and
\* build_card_html_prompt returns a prompt: neither raises.
C23_NoRaise ==
    /\ html_preview # AttributeError
    /\ html_generation_prompt # AttributeError

(***************************************************************************)
(* extract_urls called on its own                                          *)
(***************************************************************************)
\* " ", a line break, "gala", "x", "http://" with nothing after it, and the
\* two URLs: what the texts are made of.
UrlPieces ==
    {<<" ">>, <<"\n">>, <<"g", "a", "l", "a">>, <<"x">>,
     <<"h", "t", "t", "p", ":", "/", "/">>, UrlA, UrlB}

\* Pieces in one text.
MaxUrlPieces == 3

RECURSIVE TextsOf(_)
\* The texts made of at most n pieces.
TextsOf(n) ==
    IF n = 0 THEN {<<>>}
    ELSE TextsOf(n - 1) \cup {t \o p : t \in TextsOf(n - 1), p \in UrlPieces}

UrlTexts == TextsOf(MaxUrlPieces)

\* extract_urls(text), called once
ExtractUrls(arg) ==
    /\ pc = "api"
    /\ returned.op = "None"
    /\ returned' = [op |-> "extract_urls",
                    value |-> [text |-> arg, urls |-> extract_urls(arg)]]
    /\ UNCHANGED <<interview_vars, merge_vars, run_vars>>

UrlNext == \E arg \in UrlTexts : ExtractUrls(arg)

UrlSpec == Init /\ [][UrlNext]_vars

\* The text has, from position i on, http:// or https:// (in any letter
\* case, as the pattern is compiled with re.IGNORECASE) and then a character
\* that is not whitespace.
UrlStartsAt(t, i) ==
    \E n \in {7, 8} :
        /\ i + n <= Len(t)
        /\ lower(SubSeq(t, i, i + n - 1))
               \in {<<"h", "t", "t", "p", ":", "/", "/">>,
                    <<"h", "t", "t", "p", "s", ":", "/", "/">>}
        /\ ~IsSpace(t[i + n])

\* The positions at which a returned URL starts: a URL starts there, and not
\* inside the whitespace-free run of a URL that starts further left.
UrlStarts(t) ==
    {i \in 1..Len(t) :
        /\ UrlStartsAt(t, i)
        /\ \A j \in 1..(i - 1) :
               UrlStartsAt(t, j) => \E k \in j..i : IsSpace(t[k])}

\* The URL that starts at position i: up to the next whitespace character or
\* the end of the text.
UrlFrom(t, i) ==
    LET e == CHOOSE e \in i..Len(t) :
                 /\ \A k \in i..e : ~IsSpace(t[k])
                 /\ e = Len(t) \/ IsSpace(t[e + 1])
    IN  SubSeq(t, i, e)

\* The n-th smallest element of a set of numbers.
Nth(S, n) == CHOOSE x \in S : Cardinality({y \in S : y < x}) = n - 1

\* C24: extract_urls returns every substring that is http:// or https://
\* followed by one or more non-whitespace characters, in left-to-right order
\* of appearance, a URL that occurs twice being returned twice, and the empty
\* list for a text without such a substring.
C24_UrlsInOrder ==
    returned.op = "extract_urls" =>
        LET t == returned.value.text
            urls == returned.value.urls
        IN  /\ Len(urls) = Cardinality(UrlStarts(t))
            /\ \A n \in 1..Len(urls) : urls[n] = UrlFrom(t, Nth(UrlStarts(t), n))
            /\ (\A i \in 1..Len(t) : ~UrlStartsAt(t, i)) => urls = <<>>

\* "HTTP://b\nHTTP://b" gave the same URL twice.
C24_Witness ==
    /\ returned.op = "extract_urls"
    /\ returned.value.text = UrlB \o <<"\n">> \o UrlB
    /\ returned.value.urls = <<UrlB, UrlB>>

(***************************************************************************)
(* C25                                                                     *)
(***************************************************************************)
RECURSIVE url_candidates(_, _)
\* The texts that a value of image_assets offers as URLs, from left to right:
\* a string itself, the string values of a mapping under image_url, url and
\* src, the candidates of each item of a list and, where `scalars` is set
\* (the galleries take them, the background does not), a number or a boolean
\* as it is written.
url_candidates(value, scalars) ==
    LET kind == kind_of(value)
        found == url_values(value)
        elems == list_of(value)
    IN  IF kind = "NoneType" THEN <<>>
        ELSE IF kind = "str" THEN <<str_value(value)>>
        ELSE IF kind = "dict" THEN [i \in 1..Len(found) |-> str_value(found[i])]
        ELSE IF kind = "list"
             THEN concat([i \in 1..Len(elems) |-> url_candidates(elems[i], scalars)])
        ELSE IF scalars THEN <<py_str(value)>>
        ELSE <<>>

\* Every character of the text is whitespace.
is_blank_url(s) == \A i \in 1..Len(s) : IsSpace(s[i])

\* The text without its whitespace characters.
squeezed(s) == SelectSeq(s, LAMBDA c : ~IsSpace(c))

\* The URLs of a gallery: the candidates that are not blank, without their
\* whitespace, each one at its first place only.
gallery_urls(value, scalars) ==
    LET all == url_candidates(value, scalars)
        keep == {k \in 1..Len(all) :
                    /\ ~is_blank_url(all[k])
                    /\ \A j \in 1..(k - 1) : squeezed(all[j]) # squeezed(all[k])}
    IN  [n \in 1..Cardinality(keep) |-> squeezed(all[Nth(keep, n)])]

\* image_assets of the blueprint, an empty mapping when it is missing
image_assets_of(mapping) == sections_of(mapping)[3]

\* The lines of the prompt that list the URLs of one gallery.
prompt_gallery(heading, urls) ==
    join_newline(prefixed(<<"-", " ">>, listed(heading, urls)))

HeadingMustUse == <<"E", "m", "b", "e", "d", " ", "t", "h", "e", "s", "e", " ", "u", "s",
                    "e", "r", "-", "p", "r", "o", "v", "i", "d", "e", "d", " ", "i", "m",
                    "a", "g", "e", "s", " ", "a", "s", " ", "h", "e", "r", "o", "/", "b",
                    "a", "c", "k", "g", "r", "o", "u", "n", "d", " ", "a", "s", "s", "e",
                    "t", "s", ":">>

HeadingPexels == <<"O", "p", "t", "i", "o", "n", "a", "l", "l", "y", " ", "r", "e", "f",
                   "e", "r", "e", "n", "c", "e", " ", "t", "h", "e", "s", "e", " ", "P",
                   "e", "x", "e", "l", "s", " ", "i", "n", "s", "p", "i", "r", "a", "t",
                   "i", "o", "n", "s", " ", "f", "o", "r", " ", "m", "o", "o", "d", ":">>

\* The prompt lists exactly these URLs under the heading, or lacks the
\* heading when there are none.
PromptLists(heading, urls) ==
    IF urls = <<>> THEN ~contains(html_generation_prompt, heading)
    ELSE /\ contains(html_generation_prompt, prompt_gallery(heading, urls))
         /\ ~contains(html_generation_prompt,
                      prompt_gallery(heading, urls) \o <<"\n", "-", " ", " ", " ", "-",
                                                         " ">>)

\* _normalise_url gives none exactly for a blank text, otherwise the text
\* without any whitespace, and the same again when applied to its result.
normalises_cleanly(s) ==
    /\ normalise_url(s) = None <=> is_blank_url(s)
    /\ ~is_blank_url(s) =>
           /\ normalise_url(s) = squeezed(s)
           /\ normalise_url(normalise_url(s)) = normalise_url(s)

\* C25: _normalise_url returns none exactly for blank input and otherwise the
\* input without leading, trailing and internal whitespace, idempotently; the
\* URLs that the preview and the prompt list for each gallery, and the
\* background image of the preview, are such whitespace-free values, each
\* listed once, in the order in which they are first seen.
C25_CleanUrls ==
    LET assets == image_assets_of(blueprint)
        must_use == dict_get(assets, KeyMustUse)
        pexels == dict_get(assets, KeyPexelsOptions)
        offered == url_candidates(must_use, TRUE) \o url_candidates(pexels, TRUE)
        background == gallery_urls(must_use, FALSE) \o gallery_urls(pexels, FALSE)
    IN  /\ html_generation_prompt \notin {None, AttributeError} =>
               /\ \A i \in 1..Len(offered) : normalises_cleanly(offered[i])
               /\ PromptLists(HeadingMustUse, gallery_urls(must_use, TRUE))
               /\ PromptLists(HeadingPexels, gallery_urls(pexels, TRUE))
        /\ html_preview \notin {None, AttributeError} =>
               /\ contains(html_preview,
                           render_image_sections(gallery_urls(must_use, TRUE),
                                                 gallery_urls(pexels, TRUE)))
               /\ IF background = <<>>
                  THEN ~contains(html_preview, <<"b", "a", "c", "k", "g", "r", "o", "u",
                                                 "n", "d", "-", "i", "m", "a", "g", "e">>)
                  ELSE contains(html_preview,
                                <<" ", "s", "t", "y", "l", "e", "=", "\"", "b", "a", "c",
                                  "k", "g", "r", "o", "u", "n", "d", "-", "i", "m", "a",
                                  "g", "e", ":", " ", "u", "r", "l", "(", "'">>
                                    \o safe_url_of(Head(background)) \o <<"'", ")", ";",
                                                                          "\"">>)

\* Both renderers have run on a blueprint whose user images are offered with
\* whitespace inside and one of them twice: two URLs are listed for three
\* candidates.
C25_Witness ==
    LET must_use == dict_get(image_assets_of(blueprint), KeyMustUse)
    IN  /\ html_preview \notin {None, AttributeError}
        /\ html_generation_prompt \notin {None, AttributeError}
        /\ Len(url_candidates(must_use, TRUE)) = 3
        /\ \E i \in 1..3 : url_candidates(must_use, TRUE)[i] # squeezed(url_candidates(must_use, TRUE)[i])
        /\ Len(gallery_urls(must_use, TRUE)) = 2

(***************************************************************************)
(* C26                                                                     *)
(***************************************************************************)
\* The optional questions surfaced so far.
asked_optional(seen) == {a \in seen : ~QuestionById(a).required}

\* The question is open: not asked, applicable and its field, if it has one,
\* is empty.
is_open(q, req, seen) ==
    /\ q.id \notin seen
    /\ condition_holds(q, req)
    /\ ~Truthy(field_value(q, req))

\* An optional question `id`, returned by next_question called on a session
\* (req, seen), is new and comes after every optional question surfaced
\* before, and no question before it in the bank is open.
C26_Returned(id, req, seen) ==
    (id # "None" /\ ~QuestionById(id).required) =>
        /\ id \notin seen
        /\ \A a \in asked_optional(seen) : BankIndex(a) < BankIndex(id)
        /\ is_open(QuestionById(id), req, seen)
        /\ \A p \in 1..(BankIndex(id) - 1) : ~is_open(build_question_bank[p], req, seen)

\* What a call of next_question in this state returns.
C26_State == C26_Returned(next_question(requirements, asked), requirements, asked)

\* A call of next_question that surfaces a question or changes the pending
\* one.
C26_Step ==
    (asked' # asked \/ active_question' # active_question) =>
        C26_Returned(active_question', requirements, asked)

\* C26: over a session the optional questions returned by next_question have
\* strictly increasing bank positions: each call in the optional phase
\* returns the lowest-positioned question that is unasked, applicable and
\* unfilled, so none is surfaced twice, and one that was surfaced and left
\* unanswered (or answered blank) is skipped from then on.
C26_OptionalInOrder == [](C26_State) /\ [][C26_Step]_vars

\* tone is pending after recipient and relationship were surfaced and left
\* unanswered.
C26_Witness ==
    /\ active_question = "tone"
    /\ {"recipient", "relationship"} \subseteq asked
    /\ ~Truthy(requirements["recipient"])
    /\ ~Truthy(requirements["relationship"])

(***************************************************************************)
(* C27                                                                     *)
(***************************************************************************)
\* The question `id` returned by next_question on the record req has no
\* target field or an empty one.
field_empty_at_selection(id, req) ==
    (id # "None" /\ QuestionById(id).field # "") =>
        ~Truthy(field_value(QuestionById(id), req))

\* card_type is filled although its question was never surfaced: it was
\* inferred from an occasion answer.
card_type_inferred == Truthy(requirements["card_type"]) /\ "card_type" \notin asked

\* What a call of next_question in this state returns.
C27_State ==
    /\ field_empty_at_selection(next_question(requirements, asked), requirements)
    /\ card_type_inferred => next_question(requirements, asked) # "card_type"
    /\ (card_type_inferred /\ active_question = "occasion") =>
           next_question(requirements, asked) = "size"

\* A step that surfaces a question or changes the pending one selects a
\* question whose field is empty; no step surfaces the card-type question
\* once card_type is inferred.
C27_Step ==
    /\ (asked' # asked \/ active_question' # active_question) =>
           field_empty_at_selection(active_question', requirements)
    /\ card_type_inferred => ("card_type" \notin asked' /\ active_question' # "card_type")

\* C27: whenever next_question returns a question that has a target field,
\* the field is empty at that moment; once card_type has been inferred from
\* the occasion answer the card-type question is never surfaced in the
\* session, and the question after occasion is size.
C27_UnfilledWhenSelected == [](C27_State) /\ [][C27_Step]_vars

\* recipient is pending, card_type was inferred and its question never
\* surfaced.
C27_Witness ==
    /\ active_question = "recipient"
    /\ card_type_inferred
    /\ asked = {"occasion", "size", "recipient"}

(***************************************************************************)
(* C28                                                                     *)
(***************************************************************************)
\* "business"
TypeBusiness == <<"b", "u", "s", "i", "n", "e", "s", "s">>

\* A step that changes card_type is an ingest_answer with the card-type
\* question pending, which stores the answer, or with the occasion question
\* pending and card_type empty before the call, which stores a card type
\* hinted at by the answer.
C28_Step ==
    requirements'["card_type"] # requirements["card_type"] =>
        \/ /\ active_question = "card_type"
           /\ \E raw \in Inputs :
                  /\ ~is_blank(raw)
                  /\ requirements'["card_type"] = stored_value(strip(raw))
        \/ /\ active_question = "occasion"
           /\ ~Truthy(requirements["card_type"])
           /\ \E raw \in Inputs :
                  /\ HintedCategories(raw) # {}
                  /\ requirements'["occasion"] = stored_value(strip(raw))
                  /\ requirements'["card_type"] = infer_card_type_from_text(strip(raw))

\* C28: ingest_answer changes card_type only when the card-type question is
\* pending (assignment) or when the occasion question is pending and card_type
\* was empty before the call (inference); in every other state, a second
\* answer to a still pending occasion question with card_type set included,
\* card_type is left unchanged.
C28_CardTypeFrame == [][C28_Step]_vars

\* occasion is still pending and was answered a second time, with
\* "personal"; card_type is still the "business" inferred from the first
\* answer.
C28_Witness ==
    /\ active_question = "occasion"
    /\ requirements["occasion"] = AnsPersonal
    /\ requirements["card_type"] = TypeBusiness

(***************************************************************************)
(* RequirementManager answered with card-type keywords inside URLs         *)
(***************************************************************************)
\* "gala"
AnsGala == <<"g", "a", "l", "a">>

\* "http://company"
UrlCompany == <<"h", "t", "t", "p", ":", "/", "/", "c", "o", "m", "p", "a", "n", "y">>

\* "gala", "gala http://company", "http://company", "Business" and
\* "personal": answers that hint at a card type in their text, inside a URL
\* only, or not at all.
OccasionInputs ==
    {AnsGala, AnsGala \o <<" ">> \o UrlCompany, UrlCompany, AnsBusiness, AnsPersonal}

OccasionNext ==
    \/ NextQuestion
    \/ \E raw \in OccasionInputs : ReadAnswer(raw)

OccasionSpec == Init /\ [][OccasionNext]_vars

\* An occasion answer is ingested with card_type empty: card_type becomes the
\* card type hinted at by the text stored in the occasion field, or stays
\* empty when that text hints at none.
C29_Step ==
    (active_question = "occasion"
        /\ ~Truthy(requirements["card_type"])
        /\ requirements' # requirements) =>
        requirements'["card_type"] =
            IF Truthy(infer_card_type_from_text(requirements'["occasion"]))
            THEN infer_card_type_from_text(requirements'["occasion"])
            ELSE requirements["card_type"]

\* C29: the card type inferred after an occasion answer comes from scanning
\* the occasion text, the value stored in the occasion field (the answer with
\* its URLs removed): answers that store the same occasion text give the same
\* card_type, and a keyword that occurs only inside a URL of the answer gives
\* no inferred card type.
C29_InferredFromOccasion == [][C29_Step]_vars

(***************************************************************************)
(* _extract_balanced_segment called on its own                             *)
(***************************************************************************)
\* Characters after the opener in one message.
MaxBodyLen == 5

RECURSIVE BodiesOf(_, _)
\* The texts of at most n characters over the alphabet.
BodiesOf(alphabet, n) ==
    IF n = 0 THEN {<<>>}
    ELSE BodiesOf(alphabet, n - 1)
             \cup {b \o <<c>> : b \in BodiesOf(alphabet, n - 1), c \in alphabet}

\* What follows the opener {: braces, quotes, backslashes and a letter.
BraceBodies == BodiesOf({"{", "}", "\"", "\\", "a"}, MaxBodyLen)

\* What follows the opener [: brackets, quotes, backslashes and a letter.
BracketBodies == BodiesOf({"[", "]", "\"", "\\", "a"}, MaxBodyLen)

\* self._extract_balanced_segment(message, start, opener, closer), called
\* once, with the opener at `start`, after the text `prefix`
ExtractBalancedSegment(prefix, opener, closer, body) ==
    LET message == prefix \o <<opener>> \o body
    IN  /\ pc = "api"
        /\ returned' =
               [op |-> "extract_balanced_segment",
                value |-> [message |-> message, start |-> Len(prefix),
                           opener |-> opener, closer |-> closer,
                           segment |-> extract_balanced_segment(message, Len(prefix),
                                                                opener, closer)]]
        /\ UNCHANGED <<interview_vars, merge_vars, run_vars>>

\* One call in a behaviour, on a text that starts with { or on one that has
\* }" before its [.
SegmentNext ==
    /\ returned.op = "None"
    /\ \/ \E body \in BraceBodies : ExtractBalancedSegment(<<>>, "{", "}", body)
       \/ \E body \in BracketBodies :
              ExtractBalancedSegment(<<"}", "\"">>, "[", "]", body)

SegmentSpec == Init /\ [][SegmentNext]_vars

\* The number of backslashes that stand directly before position k, not
\* counting any before position low.
BackslashesBefore(message, k, low) ==
    LET others == {j \in low..(k - 1) : message[j] # "\\"}
    IN  IF others = {} THEN k - low ELSE k - 1 - Max(others)

RECURSIVE LiteralPositions(_, _)
\* The positions from `from` on that lie in a double-quoted string literal,
\* quotes included: a literal runs from a quote to the next quote that has an
\* even number of backslashes directly before it, or to the end of the text.
LiteralPositions(message, from) ==
    LET opens == {k \in from..Len(message) : message[k] = "\""}
        open == Min(opens)
        closes == {k \in (open + 1)..Len(message) :
                      /\ message[k] = "\""
                      /\ BackslashesBefore(message, k, open + 1) % 2 = 0}
    IN  IF opens = {} THEN {}
        ELSE IF closes = {} THEN open..Len(message)
        ELSE (open..Min(closes)) \cup LiteralPositions(message, Min(closes) + 1)

\* Openers minus closers among the positions first..k that are not in
\* `literal`.
DepthAt(message, first, k, opener, closer, literal) ==
    Cardinality({j \in (first..k) \ literal : message[j] = opener})
        - Cardinality({j \in (first..k) \ literal : message[j] = closer})

\* C30: _extract_balanced_segment, called with an opener at position start,
\* returns the shortest substring from start on in which the openers and
\* closers outside double-quoted string literals balance back to depth zero,
\* and None when the text has no such prefix; an opener or closer inside a
\* literal, also after a backslash-escaped quote of that literal, does not
\* change the depth.
C30_ShortestBalanced ==
    returned.op = "extract_balanced_segment" =>
        LET message == returned.value.message
            first == returned.value.start + 1
            literal == LiteralPositions(message, first)
            balanced == {k \in first..Len(message) :
                            DepthAt(message, first, k, returned.value.opener,
                                    returned.value.closer, literal) = 0}
        IN  returned.value.segment =
                IF balanced = {} THEN None ELSE SubSeq(message, first, Min(balanced))

\* {"\"} was scanned from its opener: the quote after the backslash does not
\* end the literal, the closer lies inside it, and there is no segment.
C30_Witness ==
    /\ returned.op = "extract_balanced_segment"
    /\ returned.value.message = <<"{", "\"", "\\", "\"", "}">>
    /\ returned.value.segment = None

(***************************************************************************)
(* C31                                                                     *)
(***************************************************************************)
\* The text _extract_html_document searches: the payload trimmed, and
\* without its code fence when it opens with one.
SearchedText(payload) ==
    IF startswith(strip(payload), Fence)
    THEN strip_code_fences(strip(payload))
    ELSE strip(payload)

\* "</html" stands in text at or after position first, letter case ignored
HasCloserFragment(text, first) ==
    \E i \in first..Len(text) : MatchesAt(text, i, TagHtmlEndOpen)

\* What a text with a start and without a closing </html> tag gives: the
\* text itself when it opens with the start; else the text from the start
\* on, trimmed, when "</html" follows the start; else None.
UnclosedDocumentOf(text) ==
    LET first == Min(DocumentStarts(text))
    IN  IF first = 1 THEN text
        ELSE IF HasCloserFragment(text, first)
             THEN strip(SubSeq(text, first, Len(text)))
        ELSE None

\* C31: when the searched text holds a doctype declaration or an <html tag
\* and no closing </html> tag, _extract_html_document returns the whole
\* searched text if the start is at index 0, and otherwise the text from the
\* start to the end, trimmed, if "</html" occurs at or after the start, and
\* none if it does not.
C31_UnclosedDocument ==
    (/\ pc = "extracted"
     /\ DocumentStarts(SearchedText(generated_html_raw)) # {}
     /\ DocumentEnds(SearchedText(generated_html_raw)) = {})
        => generated_html = UnclosedDocumentOf(SearchedText(generated_html_raw))

(***************************************************************************)
(* C32                                                                     *)
(***************************************************************************)
\* The first round of run, for a search and a kickoff that return: with a
\* mapping parsed from the text, the preview and the prompt are there and
\* the HTML round is next; without one, run returns the text alone.
C32_Step ==
    \A api_key \in ApiKeys, search \in RequestOutcomes, outcome \in KickoffOutcomes :
        (/\ Kickoff(api_key, search, outcome)
         /\ outcome.kind # "Exception"
         /\ ~pexels_call'.raised)
            => IF safe_parse_json(ensure_textual_payload(outcome)) # None
               THEN /\ pc' = "generate_final_html"
                    /\ blueprint' = safe_parse_json(ensure_textual_payload(outcome))
                    /\ html_preview' # None
                    /\ html_generation_prompt' # None
               ELSE /\ pc' = "returned"
                    /\ raw_output' = ensure_textual_payload(outcome)
                    /\ blueprint' = None
                    /\ html_preview' = None
                    /\ html_generation_prompt' = None
                    /\ generated_html' = None
                    /\ generated_html_raw' = None

\* In the result of run the LLM of the HTML round was called exactly when
\* there is a blueprint.
C32_State ==
    pc = "returned" => (response.kind # "not called" <=> blueprint # None)

\* C32: in run the steps after the parse are gated on the blueprint:
\* html_preview and html_generation_prompt are not none exactly when a mapping
\* was parsed from the output of the first round, the HTML generation call is
\* made exactly in that case, and without a mapping the result carries
\* raw_output with blueprint, html_preview, html_generation_prompt,
\* generated_html and generated_html_raw all none.
C32_GatedOnBlueprint == [](C32_State) /\ [][C32_Step]_vars

(***************************************************************************)
(* C33                                                                     *)
(***************************************************************************)
\* The shortest substring of text from position first on in which the braces
\* outside string literals balance, or None.
BraceSegmentFrom(text, first) ==
    LET literal == LiteralPositions(text, first)
        balanced == {k \in first..Len(text) : DepthAt(text, first, k, "{", "}", literal) = 0}
    IN  IF balanced = {} THEN None ELSE SubSeq(text, first, Min(balanced))

\* The balanced segment at the leftmost "{" that has one, or None.
LeftmostBraceSegment(text) ==
    LET starts == {i \in 1..Len(text) : text[i] = "{" /\ BraceSegmentFrom(text, i) # None}
    IN  IF starts = {} THEN None ELSE BraceSegmentFrom(text, Min(starts))

SessionAnswers(id) ==
    IF id \in {"occasion", "card_type", "size", "must_include_elements", "image_urls"}
    THEN {AnsGala, AnsBusiness, AnsUrlsOnly}
    ELSE {AnsTextUrl}

\* RequirementManager(): nothing asked, nothing pending; the caller is about
\* to call next_question.
SessionInit ==
    /\ requirements = CardRequirements
    /\ asked = {}
    /\ active_question = "None"
    /\ greeted = FALSE
    /\ answered = 0
    /\ pc = "next_question"
    /\ question = "None"
    /\ crew = "None"
    /\ OutsideIdle

\* question = manager.next_question(): the loop goes on with a question and
\* ends without one.
SessionQuestion ==
    /\ pc = "next_question"
    /\ active_question' = next_question(requirements, asked)
    /\ asked' = asked_after(requirements, asked)
    /\ pc' = IF next_question(requirements, asked) = "None" THEN "complete" ELSE "ingest_answer"
    /\ UNCHANGED <<requirements, greeted, answered, question, crew>>
    /\ UNCHANGED outside_interview

\* manager.ingest_answer(raw) with a non-blank answer to the pending question
SessionAnswer(raw) ==
    /\ pc = "ingest_answer"
    /\ raw \in SessionAnswers(active_question)
    /\ requirements' = ingest_answer(requirements, active_question, raw)
    /\ answered' = answered + 1
    /\ pc' = "next_question"
    /\ UNCHANGED <<asked, active_question, greeted, question, crew>>
    /\ UNCHANGED outside_interview

\* manager.ingest_answer(raw) with a blank answer to a pending required
\* question
SessionBlank(raw) ==
    /\ pc = "ingest_answer"
    /\ QuestionById(active_question).required
    /\ requirements' = ingest_answer(requirements, active_question, raw)
    /\ pc' = "next_question"
    /\ UNCHANGED <<asked, active_question, greeted, answered, question, crew>>
    /\ UNCHANGED outside_interview

SessionAnswered == \E raw \in Answers \cup {AnsGala} : SessionAnswer(raw)

SessionNext ==
    \/ SessionQuestion
    \/ SessionAnswered
    \/ \E raw \in BlankAnswers : SessionBlank(raw)

\* A step that ingests a non-blank answer.
NonBlankIngested == answered' = answered + 1

\* The loop calls next_question after every answer (weak fairness of
\* SessionQuestion), and a session that keeps waiting for an answer gets a
\* non-blank one sooner or later: strong fairness of the non-blank answer,
\* SF_vars(SessionAnswered), written with its enabling condition, a pending
\* question, spelled out.
SessionSpec ==
    /\ SessionInit
    /\ [][SessionNext]_vars
    /\ WF_vars(SessionQuestion)
    /\ ([]<>(pc = "ingest_answer") => []<><<NonBlankIngested>>_vars)

(***************************************************************************)
(* C34                                                                     *)
(***************************************************************************)
\* The questions of the bank: 3 required and 15 optional.
BankSize == Len(build_question_bank)

\* The pending question has no non-blank answer yet: it was just returned,
\* or it is a required question that was answered with a blank.
AwaitingAnswer ==
    \/ pc = "ingest_answer"
    \/ active_question \in RequiredIds /\ IsEmptyField(active_question)

\* The questions returned so far: those that were answered with a non-blank
\* answer, and the one still waiting for its answer.
QuestionsReturned == answered + IF AwaitingAnswer THEN 1 ELSE 0

C34_State ==
    /\ Cardinality({i \in 1..BankSize : build_question_bank[i].required}) + 15 = BankSize
    /\ QuestionsReturned <= BankSize
    /\ QuestionsReturned = Cardinality(asked)
    /\ pc = "complete" =>
           /\ active_question = "None"
           /\ is_core_complete(requirements)
           /\ ~has_more_questions(requirements, asked)

\* A non-blank answer fills the question it answers for good, so the next
\* call returns another question or none; a blank answer to a required
\* question changes nothing, and the next call returns that question again.
C34_Step ==
    /\ (pc = "ingest_answer" /\ answered' = answered + 1) =>
           next_question(requirements', asked') # active_question
    /\ (pc = "ingest_answer" /\ pc' = "next_question" /\ answered' = answered) =>
           /\ requirements' = requirements
           /\ next_question(requirements', asked') = active_question
           /\ asked_after(requirements', asked') = asked

\* C34: in a session in which every question returned by next_question gets
\* a non-blank answer, next_question returns none after at most 18 questions
\* (the 3 required and at most 15 optional ones, each returned once), and the
\* record is then core-complete; a blank answer to a required question makes
\* the next call return the same required question, and the session ends once
\* each required question has received a non-blank answer.
C34_InterviewTerminates ==
    [](C34_State) /\ [][C34_Step]_vars /\ <>(pc = "complete")

\* The session of a business card whose card type was typed in: all 18
\* questions were returned and answered, and next_question returned none.
C34_Witness ==
    /\ pc = "complete"
    /\ answered = BankSize
    /\ asked = QuestionIds
    /\ is_business(requirements)

(***************************************************************************)
(* C35                                                                     *)
(***************************************************************************)
\* The text fields of two records are the same.
SameTextFields(req, other) == \A f \in TextFieldSet : req[f] = other[f]

\* With the interview complete, a call of next_question returns none.
C35_State ==
    InterviewComplete =>
        /\ next_question(requirements, asked) = "None"
        /\ asked_after(requirements, asked) = asked
        /\ ~has_more_questions(requirements, asked)

\* A call of next_question (the step that ingests no answer) that returns
\* none leaves no question pending, and a step taken with the interview
\* complete keeps it complete, the asked set and every text field.
C35_Step ==
    /\ (answered' = answered /\ requirements' = requirements
            /\ next_question(requirements, asked) = "None") =>
           active_question' = "None"
    /\ InterviewComplete =>
           /\ InterviewComplete'
           /\ asked' = asked
           /\ SameTextFields(requirements', requirements)

\* C35: once next_question has returned none no question is pending and every
\* later call of next_question returns none, whatever answers are ingested in
\* between; from then on no text field of the record changes (URLs of later
\* messages are still collected in image_urls).
C35_CompleteIsAbsorbing == [](C35_State) /\ [][C35_Step]_vars

\* The interview completed on a business card with the two answers
\* "Business", and the message ingested afterwards left its URLs in
\* image_urls and nothing else.
C35_Witness ==
    /\ InterviewComplete
    /\ requirements["occasion"] = AnsBusiness
    /\ requirements["size"] = AnsBusiness
    /\ is_business(requirements)
    /\ requirements["image_urls"] # <<>>
    /\ \A f \in TextFieldSet \ {"occasion", "card_type", "size"} : requirements[f] = None

(***************************************************************************)
(* C36                                                                     *)
(***************************************************************************)
\* What has_more_questions() returns in this state is what a call of
\* next_question() made in its place would tell.
C36_State ==
    has_more_questions(requirements, asked) <=> next_question(requirements, asked) # "None"

\* has_more_questions() (the step that returns a value and leaves the
\* manager as it is) returns whether next_question(), called right after it,
\* returns a question; and a call of next_question (the step that ingests
\* nothing and changes the pending question or the asked set) leaves a
\* question pending exactly when has_more_questions() was true before it.
C36_Step ==
    /\ (interview_vars' = interview_vars /\ returned'.op = "has_more_questions") =>
           returned'.value = (next_question(requirements', asked') # "None")
    /\ (/\ answered' = answered
        /\ requirements' = requirements
        /\ asked' # asked \/ active_question' # active_question) =>
           (active_question' # "None" <=> has_more_questions(requirements, asked))

\* C36: has_more_questions() agrees with next_question() in every reachable
\* state: it is true if and only if a call of next_question() that follows
\* it immediately returns a question.
C36_AgreesWithNextQuestion == [](C36_State) /\ [][C36_Step]_vars

\* has_more_questions() returned false: the interview of a business card is
\* complete, with the card type inferred from the occasion and its question
\* never asked.
C36_Witness ==
    /\ returned.op = "has_more_questions"
    /\ returned.value = FALSE
    /\ InterviewComplete
    /\ is_business(requirements)
    /\ asked = QuestionIds \ {"card_type"}

(***************************************************************************)
(* C37                                                                     *)
(***************************************************************************)
\* "gala; Business"
TxtGalaBusiness == AnsGala \o <<";", " ">> \o AnsBusiness

\* One list is the beginning of the other.
IsPrefix(short, long) ==
    Len(short) <= Len(long) /\ SubSeq(long, 1, Len(short)) = short

\* No step empties a text field that holds text or takes a URL from
\* image_urls, and no step makes a core-complete record incomplete.
C37_Step ==
    /\ \A f \in TextFieldSet : Truthy(requirements[f]) => Truthy(requirements'[f])
    /\ IsPrefix(requirements["image_urls"], requirements'["image_urls"])
    /\ is_core_complete(requirements) => is_core_complete(requirements')

\* C37: under any sequence of next_question and ingest_answer calls a field
\* of the record that has become non-empty never becomes empty or none again
\* (a later answer replaces or extends its text), so is_core_complete(), once
\* true, stays true for the rest of the session.
C37_FieldsMonotone == [][C37_Step]_vars

\* The image question took two answers: must_include_elements, set from the
\* first, was extended by the second, and the record is still core-complete.
C37_Witness ==
    /\ active_question = "image_urls"
    /\ requirements["must_include_elements"] = TxtGalaBusiness
    /\ requirements["image_urls"] # <<>>
    /\ is_core_complete(requirements)

(***************************************************************************)
(* C38                                                                     *)
(***************************************************************************)
\* The pending question is a plain one: it has a target field and no handler.
PlainPending ==
    /\ active_question # "None"
    /\ QuestionById(active_question).handler = "None"
    /\ QuestionById(active_question).field # ""

\* The frame of ingest_answer, the steps that select a question, and what an
\* answer to a pending plain question stores.
C38_Step ==
    \* a step that ingests an answer keeps the pending question and the asked set
    /\ (requirements' # requirements \/ answered' # answered) =>
           /\ active_question' = active_question
           /\ asked' = asked
    \* a step that changes either is a call of next_question
    /\ (active_question' # active_question \/ asked' # asked) =>
           /\ requirements' = requirements
           /\ answered' = answered
           /\ active_question' = next_question(requirements, asked)
           /\ asked' = asked_after(requirements, asked)
    \* an answer ingested with a plain question pending, the first or a later
    \* one, is stored in the field of that question and in no other field
    \* (the card type inferred from an occasion answer apart)
    /\ (answered' # answered /\ PlainPending) =>
           /\ \E raw \in Answers :
                  /\ requirements'[QuestionById(active_question).field]
                         = stored_value(strip(raw))
                  /\ requirements'["image_urls"]
                         = append_unseen(requirements["image_urls"], extract_urls(strip(raw)))
           /\ \A f \in TextFieldSet \ {QuestionById(active_question).field, "card_type"} :
                  requirements'[f] = requirements[f]

\* C38: ingest_answer never changes the pending question or the asked set;
\* only next_question does. The answered question therefore stays pending
\* until the next call of next_question, and a second non-blank answer
\* ingested before that call is applied to the same question: the field of a
\* plain question then holds the later answer.
C38_PendingUntilNextQuestion == [][C38_Step]_vars

\* Three answers were ingested with two questions asked, so one question
\* received a second answer. The answer that brought the URL is no longer in
\* the record: the field it was stored in was overwritten by a later answer.
C38_Witness ==
    /\ answered = 3
    /\ asked = {"occasion", "size"}
    /\ active_question = "size"
    /\ requirements["occasion"] = AnsBusiness
    /\ requirements["size"] = AnsPersonal
    /\ requirements["image_urls"] = <<UrlA>>

(***************************************************************************)
(* C39                                                                     *)
(***************************************************************************)
\* text.endswith(suffix)
endswith(text, suffix) ==
    /\ Len(suffix) <= Len(text)
    /\ SubSeq(text, Len(text) - Len(suffix) + 1, Len(text)) = suffix

\* C39: whenever _extract_html_document returns a document (not none), the
\* returned string is non-empty, is a contiguous substring of the input and
\* begins, letter case ignored, with "<!doctype" or "<html"; when the input
\* holds a closing </html> tag the returned string ends with it.
C39_ReturnedDocument ==
    (pc = "extracted" /\ generated_html # None) =>
        /\ generated_html # <<>>
        /\ contains(generated_html_raw, generated_html)
        /\ \/ startswith(lower(generated_html), TagDoctype)
           \/ startswith(lower(generated_html), TagHtml)
        /\ contains(lower(generated_html_raw), TagHtmlEnd) =>
               endswith(lower(generated_html), TagHtmlEnd)

====
